---- MODULE Spec2Model ----
(***************************************************************************)
(* A model of the response cache of the MCP weather server                 *)
(* (src/src/utils/cache.ts), of the HTTP cache middleware in front of the  *)
(* tool handlers (src/src/middleware/cacheMiddleware.ts and the server's   *)
(* /mcp/call route) and of the service layer that shares the cache         *)
(* (OptimizedWeatherService).                                              *)
(*                                                                         *)
(* Strings the code inspects character by character (cache keys, the       *)
(* category tags, patterns) are sequences of one-character strings, so     *)
(* that startsWith and includes are computed as the code computes them.    *)
(* Coordinates are integers in units of 1/(10 * Precision) degree, one     *)
(* decimal more than the rounding keeps.  Times are milliseconds.          *)
(***************************************************************************)
EXTENDS Integers, Sequences, FiniteSets, TLC

VARIABLES
    cache,         \* WeatherCache.cache: the Map, as its entries in insertion order
    stats,         \* WeatherCache.stats
    now,           \* the value Date.now() returns
    cleanupTimer,  \* TRUE while the setInterval of startCleanup is armed
    last,          \* the last call a direct caller made on the cache: what it returned and logged
    workload,      \* the inputs the callers of this run pass (key parameters, request bodies)
    http,          \* the HTTP exchange of the client: its request and the response so far
    heap,          \* the OpenMeteoResponse objects the service layer received, by reference
    task,          \* the call of getSmartForecast in progress and where it is
    nextSweep,     \* the time at which the interval timer of startCleanup is next due
    observed,      \* what the callers of get have seen returned: payloads and absents
    handlers,      \* where each concurrent call of getCurrentWeather is, and the last set
    serverConfig,  \* the ServerConfig loaded from the environment
    shutdown       \* GracefulShutdown: its flag, where initiateShutdown is, the process

vars == <<cache, stats, now, cleanupTimer, last, workload, http, heap, task, nextSweep,
          observed, handlers, serverConfig, shutdown>>

\* the state of the layers above the cache, and what the methods of the cache
\* leave alone
layers == <<http, heap, task, nextSweep, observed, handlers, serverConfig, shutdown>>

----------------------------------------------------------------------------
(* Bounds of the model *)

\* capacities of the four categories, scaled down from 1000 / 500 / 300 / 2000
MaxSizeCurrentWeather == 2
MaxSizeForecast == 1
MaxSizeHourlyForecast == 1
MaxSizeGeocoding == 1
\* the clock is read at multiples of ClockStep, up to MaxTicks of them
MaxTicks == 2
\* at most MaxGets calls of get are made (stats.accessCount counts them)
MaxGets == 1
\* the client sends at most MaxRequests tool calls
MaxRequests == 3
\* the service layer is called at most MaxCalls times
MaxCalls == 2
\* the timed specification follows the clock for MaxSweeps periods of the timer
MaxSweeps == 4
\* the callers that tally what get returns make at most MaxObservedGets lookups
MaxObservedGets == 3
\* the number of calls of getCurrentWeather in progress at the same time
MaxHandlers == 3
\* the number of connections the HTTP server has open at the same time
MaxConnections == 2

----------------------------------------------------------------------------
(* Strings *)

CURRENT_WEATHER == <<"c","u","r","r","e","n","t","_","w","e","a","t","h","e","r">>
FORECAST == <<"f","o","r","e","c","a","s","t">>
HOURLY_FORECAST == <<"h","o","u","r","l","y","_","f","o","r","e","c","a","s","t">>
GEOCODING == <<"g","e","o","c","o","d","i","n","g">>

\* enum CacheType
CacheType == {CURRENT_WEATHER, FORECAST, HOURLY_FORECAST, GEOCODING}

\* String.prototype.startsWith
StartsWith(s, prefix) ==
    /\ Len(prefix) <= Len(s)
    /\ SubSeq(s, 1, Len(prefix)) = prefix

\* String.prototype.includes
Includes(s, pattern) ==
    \E i \in 0..(Len(s) - Len(pattern)) : SubSeq(s, i + 1, i + Len(pattern)) = pattern

Digit(d) == <<"0","1","2","3","4","5","6","7","8","9">>[d + 1]

\* the decimal digits of a natural number
RECURSIVE NatToString(_)
NatToString(n) ==
    IF n < 10 THEN <<Digit(n)>> ELSE NatToString(n \div 10) \o <<Digit(n % 10)>>

\* n written with exactly width digits (leading zeros kept)
RECURSIVE FixedDigits(_, _)
FixedDigits(n, width) ==
    IF width = 0 THEN <<>> ELSE FixedDigits(n \div 10, width - 1) \o <<Digit(n % 10)>>

\* the digits of the fraction f / 10^width, trailing zeros dropped
RECURSIVE FractionDigits(_, _)
FractionDigits(f, width) ==
    IF f = 0 THEN <<>>
    ELSE IF f % 10 = 0 THEN FractionDigits(f \div 10, width - 1)
    ELSE FixedDigits(f, width)

----------------------------------------------------------------------------
(* Key generation *)

\* the factor of Math.round(x * 10000) / 10000
Precision == 10000

\* cutting after the fourth decimal instead of rounding
TruncateCoordinate(m) == m \div 10

\* Math.round(x * 10000) for x = m / (10 * Precision): the nearest integer,
\* a half rounded towards +Infinity
RoundCoordinate(m) == (m + 5) \div 10

\* `${v}` for the number v = n / Precision (Number::toString in base 10)
NumberToString(n) ==
    LET a == IF n < 0 THEN -n ELSE n
        f == FractionDigits(a % Precision, 4)
    IN  (IF n < 0 THEN <<"-">> ELSE <<>>)
        \o NatToString(a \div Precision)
        \o (IF f = <<>> THEN <<>> ELSE <<".">> \o f)

\* the names of tool parameters in the order Array.prototype.sort gives them
SortedNames ==
    << "country", "days", "forecast_days", "includeDaily", "includeHourly",
       "language", "location", "max_results", "precipitation_unit",
       "temperature_unit", "timezone", "wind_speed_unit" >>

\* Object.keys(parameters).sort().map(key => `${key}:${value}`).join('|');
\* parameters is a function from names to the text `${value}` prints
RECURSIVE JoinFrom(_, _, _)
JoinFrom(parameters, i, started) ==
    IF i > Len(SortedNames) THEN ""
    ELSE IF SortedNames[i] \in DOMAIN parameters
         THEN (IF started THEN "|" ELSE "")
              \o SortedNames[i] \o ":" \o parameters[SortedNames[i]]
              \o JoinFrom(parameters, i + 1, TRUE)
         ELSE JoinFrom(parameters, i + 1, started)

ParamString(parameters) == JoinFrom(parameters, 1, FALSE)

\* crypto.createHash('md5').update(paramString).digest('hex').slice(0, 8),
\* tabulated for the parameter strings the model builds
Md5Hex8(paramString) ==
    CASE paramString = "temperature_unit:celsius" -> <<"d","9","6","1","d","7","2","f">>
      [] paramString = "location:paris" -> <<"e","b","5","e","a","7","2","0">>
      [] paramString = "location:rome" -> <<"7","5","0","d","9","2","6","6">>
      [] paramString = "precipitation_unit:undefined|temperature_unit:undefined|timezone:undefined|wind_speed_unit:undefined"
         -> <<"a","2","1","4","f","2","8","5">>
      [] paramString = "precipitation_unit:undefined|temperature_unit:kelvin|timezone:undefined|wind_speed_unit:undefined"
         -> <<"2","7","e","2","7","7","b","8">>
      [] paramString = "precipitation_unit:undefined|temperature_unit:undefined|timezone:auto|wind_speed_unit:undefined"
         -> <<"b","d","f","0","3","d","9","0">>
      [] paramString = "days:7|temperature_unit:undefined|timezone:undefined"
         -> <<"8","9","6","f","2","3","4","0">>
      [] paramString = "days:15|temperature_unit:undefined|timezone:undefined"
         -> <<"4","b","1","c","0","c","3","1">>
      [] paramString = "days:3|includeDaily:true|includeHourly:false|temperature_unit:undefined|timezone:undefined"
         -> <<"9","c","d","3","7","3","0","4">>
      [] paramString = "days:7|includeDaily:true|includeHourly:false|temperature_unit:undefined|timezone:undefined"
         -> <<"6","f","9","1","f","7","0","8">>
      [] paramString = "days:7|includeDaily:true|includeHourly:true|temperature_unit:undefined|timezone:undefined"
         -> <<"6","4","c","2","0","0","b","a">>
      [] paramString = "forecast_days:2|temperature_unit:undefined|timezone:undefined"
         -> <<"7","0","f","e","d","6","f","2">>
      [] paramString = "temperature_unit:celsius|timezone:auto"
         -> <<"5","4","9","b","3","a","d","6">>
      [] paramString = "timezone:auto|temperature_unit:celsius"
         -> <<"6","3","2","9","e","b","8","b">>
      [] paramString = "timezone:auto" -> <<"a","d","0","2","a","3","7","2">>
      [] paramString = "country:fr|language:de|language:en|location:paris|max_results:5"
         -> <<"7","0","2","d","c","7","4","6">>
      [] paramString = "country:fr|language:en|location:paris|max_results:5"
         -> <<"0","3","0","b","4","a","4","2">>
      [] paramString = "country:de|language:en|location:paris|max_results:5"
         -> <<"0","4","2","1","9","b","f","f">>

NoParameters == [n \in {} |-> ""]

generateKey(params) ==
    LET lat == RoundCoordinate(params.latitude)
        lon == RoundCoordinate(params.longitude)
        paramString == ParamString(params.parameters)
        baseKey == params.type \o <<":">> \o NumberToString(lat) \o <<",">> \o NumberToString(lon)
    IN  IF paramString # "" THEN baseKey \o <<":">> \o Md5Hex8(paramString) ELSE baseKey

\* The same with the parameters as the object the caller wrote: a sequence of
\* <<name, value>> pairs in the order of the object literal, which is the order
\* Object.keys returns.
ObjectKeys(object) == [i \in 1..Len(object) |-> object[i][1]]

ValueOf(object, name) == object[CHOOSE i \in 1..Len(object) : object[i][1] = name][2]

\* the place of a name in the order of Array.prototype.sort (UTF-16 code units)
Rank(name) == CHOOSE i \in 1..Len(SortedNames) : SortedNames[i] = name

RECURSIVE Insert(_, _)
Insert(sorted, name) ==
    IF sorted = <<>> THEN <<name>>
    ELSE IF Rank(name) < Rank(Head(sorted)) THEN <<name>> \o sorted
    ELSE <<Head(sorted)>> \o Insert(Tail(sorted), name)

\* the keys left in the order of the object literal
Unsorted(names) == names

\* Object.keys(...).sort()
RECURSIVE Sort(_)
Sort(names) == IF names = <<>> THEN <<>> ELSE Insert(Sort(Tail(names)), Head(names))

\* .map(key => `${key}:${value}`).join('|')
RECURSIVE Join(_, _)
Join(object, names) ==
    IF names = <<>> THEN ""
    ELSE Head(names) \o ":" \o ValueOf(object, Head(names))
         \o (IF Tail(names) = <<>> THEN "" ELSE "|" \o Join(object, Tail(names)))

ParamStringOf(object) == Join(object, Sort(ObjectKeys(object)))

generateKeyOf(params) ==
    LET lat == RoundCoordinate(params.latitude)
        lon == RoundCoordinate(params.longitude)
        paramString == ParamStringOf(params.parameters)
        baseKey == params.type \o <<":">> \o NumberToString(lat) \o <<",">> \o NumberToString(lon)
    IN  IF paramString # "" THEN baseKey \o <<":">> \o Md5Hex8(paramString) ELSE baseKey

----------------------------------------------------------------------------
(* Configuration *)

\* one step of the model's clock: the shortest ttl of a category
ClockStep == 10 * 60 * 1000

\* WeatherCache.configs after initializeConfigs
configs ==
    (CURRENT_WEATHER :> [ttl |-> 10 * 60 * 1000, maxSize |-> MaxSizeCurrentWeather,
                         cleanupInterval |-> 5 * 60 * 1000])
    @@ (FORECAST :> [ttl |-> 60 * 60 * 1000, maxSize |-> MaxSizeForecast,
                     cleanupInterval |-> 15 * 60 * 1000])
    @@ (HOURLY_FORECAST :> [ttl |-> 30 * 60 * 1000, maxSize |-> MaxSizeHourlyForecast,
                            cleanupInterval |-> 10 * 60 * 1000])
    @@ (GEOCODING :> [ttl |-> 2 * 60 * 60 * 1000, maxSize |-> MaxSizeGeocoding,
                      cleanupInterval |-> 30 * 60 * 1000])

----------------------------------------------------------------------------
(* The Map and the operations of WeatherCache, as functions of the state *)

\* the value get returns for "no entry"
Null == [null |-> TRUE]

\* Map.prototype.has
Has(c, key) == \E i \in 1..Len(c) : c[i].key = key

\* Map.prototype.get (of a key the map has)
EntryOf(c, key) == c[CHOOSE i \in 1..Len(c) : c[i].key = key]

\* Map.prototype.delete
MapDelete(c, key) == SelectSeq(c, LAMBDA e : e.key # key)

\* a map that adds an entry on every set
MapSetAppend(c, key, entry) == Append(c, entry)

\* Map.prototype.set: a key the map has keeps its place in the iteration order
MapSet(c, key, entry) ==
    IF Has(c, key)
    THEN [c EXCEPT ![CHOOSE i \in 1..Len(c) : c[i].key = key] = entry]
    ELSE Append(c, entry)

\* estimateSize: the byte length of JSON.stringify(data)
estimateSize(data) == data.bytes

\* a reduce that keeps the most recently accessed entry instead
RECURSIVE ReduceNewest(_, _, _)
ReduceNewest(typeEntries, i, newest) ==
    IF i > Len(typeEntries) THEN newest
    ELSE ReduceNewest(typeEntries, i + 1,
                      IF typeEntries[i].lastAccess > newest.lastAccess
                      THEN typeEntries[i] ELSE newest)

\* typeEntries.reduce((oldest, current) => current.lastAccess < oldest.lastAccess ? current : oldest)
RECURSIVE ReduceOldest(_, _, _)
ReduceOldest(typeEntries, i, oldest) ==
    IF i > Len(typeEntries) THEN oldest
    ELSE ReduceOldest(typeEntries, i + 1,
                      IF typeEntries[i].lastAccess < oldest.lastAccess
                      THEN typeEntries[i] ELSE oldest)

\* the entries of the map whose key starts with type + ':'
\* a filter that looks for the category tag anywhere in the key
TypeEntriesIncluding(c, type) == SelectSeq(c, LAMBDA e : Includes(e.key, type \o <<":">>))

TypeEntries(c, type) == SelectSeq(c, LAMBDA e : StartsWith(e.key, type \o <<":">>))

\* the key ensureCapacity deletes (and logs as EVICTED), NoKey when it deletes none
NoKey == <<>>

\* an ensureCapacity that waits until the category is over its maxSize
LruKeyWhenOver(c, type, config) ==
    LET typeEntries == TypeEntries(c, type)
    IN  IF Len(typeEntries) > config.maxSize
        THEN ReduceOldest(typeEntries, 2, typeEntries[1]).key
        ELSE NoKey

LruKey(c, type, config) ==
    LET typeEntries == TypeEntries(c, type)
    IN  IF Len(typeEntries) >= config.maxSize
        THEN ReduceOldest(typeEntries, 2, typeEntries[1]).key
        ELSE NoKey

\* an ensureCapacity that makes room by deleting the largest entry of the category
ensureCapacityLargest(c, type, config) ==
    LET typeEntries == TypeEntries(c, type)
    IN  IF Len(typeEntries) >= config.maxSize
        THEN MapDelete(c, typeEntries[CHOOSE i \in 1..Len(typeEntries) :
                                         \A j \in 1..Len(typeEntries) :
                                            typeEntries[j].size <= typeEntries[i].size].key)
        ELSE c

\* an ensureCapacity that empties a full category
ensureCapacityPurging(c, type, config) ==
    IF LruKey(c, type, config) # NoKey
    THEN SelectSeq(c, LAMBDA e : ~StartsWith(e.key, type \o <<":">>))
    ELSE c

ensureCapacity(c, type, config) ==
    IF LruKey(c, type, config) # NoKey
    THEN MapDelete(c, LruKey(c, type, config))
    ELSE c

\* an entry that is given the ttl of current weather whatever its category
NewEntryFixedTtl(key, data, config, t) ==
    [key |-> key, data |-> data, timestamp |-> t, ttl |-> 10 * 60 * 1000,
     accessCount |-> 0, lastAccess |-> t, size |-> estimateSize(data)]

\* an entry whose lastAccess waits for the first get
NewEntryNeverAccessed(key, data, config, t) ==
    [key |-> key, data |-> data, timestamp |-> t, ttl |-> config.ttl,
     accessCount |-> 0, lastAccess |-> 0, size |-> estimateSize(data)]

\* the entry set builds
NewEntry(key, data, config, t) ==
    [key |-> key, data |-> data, timestamp |-> t, ttl |-> config.ttl,
     accessCount |-> 0, lastAccess |-> t, size |-> estimateSize(data)]

\* a set that falls back to the current weather policy for an unknown category
SetCacheDefaulting(c, key, data, cacheType, t) ==
    LET config == IF cacheType \in DOMAIN configs THEN configs[cacheType]
                  ELSE configs[CURRENT_WEATHER]
    IN  MapSet(ensureCapacity(c, cacheType, config), key, NewEntry(key, data, config, t))

\* the map after set(key, data, cacheType) at time t
SetCache(c, key, data, cacheType, t) ==
    IF cacheType \notin DOMAIN configs
    THEN c
    ELSE MapSet(ensureCapacity(c, cacheType, configs[cacheType]), key,
                NewEntry(key, data, configs[cacheType], t))

\* an expiry check that already counts an entry of age ttl as expired
ExpiredAtTtl(entry, t) == t - entry.timestamp >= entry.ttl

\* the check of get and of cleanup: has the entry expired at time t
Expired(entry, t) == t - entry.timestamp > entry.ttl

\* a get that counts nothing when it finds the entry stale
GetOutcomeStaleUncounted(c, st, key, t) ==
    LET counted == [st EXCEPT !.accessCount = @ + 1]
    IN  IF ~Has(c, key)
        THEN [cache |-> c, stats |-> [counted EXCEPT !.misses = @ + 1],
              result |-> Null, log |-> "MISS"]
        ELSE LET entry == EntryOf(c, key)
             IN  IF t - entry.timestamp > entry.ttl
                 THEN [cache |-> MapDelete(c, key), stats |-> counted,
                       result |-> Null, log |-> "EXPIRED"]
                 ELSE [cache |-> MapSet(c, key, [entry EXCEPT !.accessCount = @ + 1,
                                                               !.lastAccess = t]),
                       stats |-> [counted EXCEPT !.hits = @ + 1],
                       result |-> entry.data, log |-> "HIT"]

\* a get whose hit also restarts the ttl of the entry
GetOutcomeSliding(c, st, key, t) ==
    LET counted == [st EXCEPT !.accessCount = @ + 1]
    IN  IF ~Has(c, key)
        THEN [cache |-> c, stats |-> [counted EXCEPT !.misses = @ + 1],
              result |-> Null, log |-> "MISS"]
        ELSE LET entry == EntryOf(c, key)
             IN  IF t - entry.timestamp > entry.ttl
                 THEN [cache |-> MapDelete(c, key),
                       stats |-> [counted EXCEPT !.misses = @ + 1],
                       result |-> Null, log |-> "EXPIRED"]
                 ELSE [cache |-> MapSet(c, key, [entry EXCEPT !.accessCount = @ + 1, !.lastAccess = t, !.timestamp = t]),
                       stats |-> [counted EXCEPT !.hits = @ + 1],
                       result |-> entry.data, log |-> "HIT"]

\* a get that leaves a marker entry under a key it did not find
GetOutcomeRememberingMiss(c, st, key, t) ==
    LET counted == [st EXCEPT !.accessCount = @ + 1]
    IN  IF ~Has(c, key)
        THEN [cache |-> Append(c, [key |-> key, data |-> Null, timestamp |-> t, ttl |-> 0, accessCount |-> 0, lastAccess |-> t, size |-> 0]), stats |-> [counted EXCEPT !.misses = @ + 1],
              result |-> Null, log |-> "MISS"]
        ELSE LET entry == EntryOf(c, key)
             IN  IF t - entry.timestamp > entry.ttl
                 THEN [cache |-> MapDelete(c, key),
                       stats |-> [counted EXCEPT !.misses = @ + 1],
                       result |-> Null, log |-> "EXPIRED"]
                 ELSE [cache |-> MapSet(c, key, [entry EXCEPT !.accessCount = @ + 1, !.lastAccess = t]),
                       stats |-> [counted EXCEPT !.hits = @ + 1],
                       result |-> entry.data, log |-> "HIT"]

\* a get that refuses a stale entry but leaves it to the sweep
GetOutcomeStaleKept(c, st, key, t) ==
    LET counted == [st EXCEPT !.accessCount = @ + 1]
    IN  IF ~Has(c, key)
        THEN [cache |-> c, stats |-> [counted EXCEPT !.misses = @ + 1],
              result |-> Null, log |-> "MISS"]
        ELSE LET entry == EntryOf(c, key)
             IN  IF t - entry.timestamp > entry.ttl
                 THEN [cache |-> c,
                       stats |-> [counted EXCEPT !.misses = @ + 1],
                       result |-> Null, log |-> "EXPIRED"]
                 ELSE [cache |-> MapSet(c, key, [entry EXCEPT !.accessCount = @ + 1, !.lastAccess = t]),
                       stats |-> [counted EXCEPT !.hits = @ + 1],
                       result |-> entry.data, log |-> "HIT"]

\* a get that counts the access at the end of the try block, which the two
\* early returns do not reach
GetOutcomeCountingInTry(c, st, key, t) ==
    IF ~Has(c, key)
    THEN [cache |-> c, stats |-> [st EXCEPT !.misses = @ + 1],
          result |-> Null, log |-> "MISS"]
    ELSE LET entry == EntryOf(c, key)
         IN  IF Expired(entry, t)
             THEN [cache |-> MapDelete(c, key),
                   stats |-> [st EXCEPT !.misses = @ + 1],
                   result |-> Null, log |-> "EXPIRED"]
             ELSE [cache |-> MapSet(c, key, [entry EXCEPT !.accessCount = @ + 1, !.lastAccess = t]),
                   stats |-> [st EXCEPT !.hits = @ + 1, !.accessCount = @ + 1],
                   result |-> entry.data, log |-> "HIT"]

\* get(key, _type) at time t: the map, the counters, the value returned and the
\* line logged; the finally block counts the access (which took no time)
GetOutcome(c, st, key, t) ==
    LET counted == [st EXCEPT !.totalAccessTime = @ + 0, !.accessCount = @ + 1]
    IN  IF ~Has(c, key)
        THEN [cache |-> c, stats |-> [counted EXCEPT !.misses = @ + 1],
              result |-> Null, log |-> "MISS"]
        ELSE LET entry == EntryOf(c, key)
             IN  IF Expired(entry, t)
                 THEN [cache |-> MapDelete(c, key),
                       stats |-> [counted EXCEPT !.misses = @ + 1],
                       result |-> Null, log |-> "EXPIRED"]
                 ELSE [cache |-> MapSet(c, key, [entry EXCEPT !.accessCount = @ + 1,
                                                               !.lastAccess = t]),
                       stats |-> [counted EXCEPT !.hits = @ + 1],
                       result |-> entry.data, log |-> "HIT"]

\* the keys invalidate(pattern) deletes; NoPattern stands for a call without pattern
NoPattern == <<>>

\* a clear that reads the size of the map after it cleared it
InvalidateMatchesAfterClear(c, pattern) ==
    IF pattern = NoPattern
    THEN <<>>
    ELSE SelectSeq(c, LAMBDA e : Includes(e.key, pattern))

InvalidateMatches(c, pattern) ==
    IF pattern = NoPattern
    THEN c
    ELSE SelectSeq(c, LAMBDA e : Includes(e.key, pattern))

\* an invalidate that counts the entries and deletes none
InvalidateCacheCounting(c, pattern) == c

\* the map after invalidate(pattern)
InvalidateCache(c, pattern) ==
    IF pattern = NoPattern
    THEN <<>>
    ELSE SelectSeq(c, LAMBDA e : ~Includes(e.key, pattern))

\* a pattern built by cutting the coordinates after four decimals
LocationPatternTruncated(latitude, longitude) ==
    NumberToString(latitude \div 10) \o <<",">> \o NumberToString(longitude \div 10)

\* the pattern invalidateByLocation passes to invalidate
LocationPattern(latitude, longitude) ==
    NumberToString(RoundCoordinate(latitude)) \o <<",">> \o NumberToString(RoundCoordinate(longitude))

\* the pattern invalidateByType passes to invalidate
TypePattern(type) == type \o <<":">>

\* a cleanup that spares the entries that expired since the period before
CleanupCacheLenient(c, t) == SelectSeq(c, LAMBDA e : t - e.timestamp <= e.ttl + 5 * 60 * 1000)

\* a cleanup that already removes the entries of age ttl
CleanupCacheAtTtl(c, t) == SelectSeq(c, LAMBDA e : t - e.timestamp < e.ttl)

\* the map after cleanup() at time t
CleanupCache(c, t) == SelectSeq(c, LAMBDA e : ~Expired(e, t))

----------------------------------------------------------------------------
(* The inputs of the cache specification *)

\* a category tag that initializeConfigs does not configure
UNKNOWN_TYPE == <<"a","l","e","r","t","s">>

\* coordinates (latitude, longitude), in units of 1/(10 * Precision) degree:
\* (1, 2); (1.00004, 1.99996), which rounds to (1, 2); (11, 25), whose text
\* "11,25" contains the text "1,2"; and the (0, 0) geocoding requests use
Paris == <<100000, 200000>>
ParisNoisy == <<100004, 199996>>
Oslo == <<1100000, 2500000>>
Origin == <<0, 0>>

KeyParams(type, loc, parameters) ==
    [type |-> type, latitude |-> loc[1], longitude |-> loc[2], parameters |-> parameters]

HourlyWorkload ==
    { KeyParams(HOURLY_FORECAST, Paris, NoParameters),
      KeyParams(HOURLY_FORECAST, Oslo, NoParameters) }

\* The requests of one run: each workload offers one key more than the capacity
\* of its category; the forecast workload has an entry of a second category.
Workloads ==
    { { KeyParams(CURRENT_WEATHER, Paris, NoParameters),
        KeyParams(CURRENT_WEATHER, ParisNoisy, NoParameters),
        KeyParams(CURRENT_WEATHER, Oslo, NoParameters),
        KeyParams(CURRENT_WEATHER, Paris, [temperature_unit |-> "celsius"]) },
      { KeyParams(FORECAST, Paris, NoParameters),
        KeyParams(FORECAST, Oslo, NoParameters),
        KeyParams(HOURLY_FORECAST, ParisNoisy, NoParameters) },
      HourlyWorkload,
      { KeyParams(GEOCODING, Origin, [location |-> "paris"]),
        KeyParams(GEOCODING, Origin, [location |-> "rome"]) } }

\* the payload a caller stores at time t: what the upstream answered at t
Payload(t) == [fetchedAt |-> t, bytes |-> 100]

----------------------------------------------------------------------------
(* The cache specification: calls of the public methods, the timer, the clock *)

\* the record of a call; no method of WeatherCache has a throw statement
Call(op, key, type, ret, count, log, evicted) ==
    [op |-> op, key |-> key, type |-> type, ret |-> ret, count |-> count,
     log |-> log, evicted |-> evicted, threw |-> FALSE]

NoCall == Call("none", NoKey, <<>>, Null, 0, "", NoKey)

\* no request has arrived
NoExchange ==
    [count |-> 0, request |-> Null, phase |-> "idle", cacheKey |-> NoKey,
     xCache |-> "NONE", status |-> 0, body |-> Null, sentAt |-> 0]

\* the service layer has not been called
NoTask == [count |-> 0, call |-> Null, pc |-> "idle", forecast |-> 0, result |-> 0]

\* the period of the timer startCleanup arms
SweepInterval == 5 * 60 * 1000

\* MAX_CACHE_SIZE when the environment does not set it: 1000 in the code, which
\* is also the capacity of the current weather category
DefaultMaxCacheSize == MaxSizeCurrentWeather

\* loadEnvironmentConfig() with CACHE_ENABLED set or not
LoadedConfig(cacheEnabled) ==
    [cacheEnabled |-> cacheEnabled, maxCacheSize |-> DefaultMaxCacheSize]

\* the fields after construction, whatever the configuration
\* the GracefulShutdown instance and the process before any signal
NotShuttingDown ==
    [shutdownInProgress |-> FALSE, pc |-> "serving", reason |-> "", exitCode |-> 0,
     elapsed |-> 0, connections |-> 0, cleaned |-> <<>>, exited |-> -1,
     duplicate |-> FALSE]

InitFields ==
    /\ shutdown = NotShuttingDown
    /\ nextSweep = SweepInterval
    /\ observed = [payload |-> 0, absent |-> 0]
    /\ handlers = [pc |-> [h \in 1..MaxHandlers |-> "start"], lastSet |-> Null,
                   overtaken |-> {}, written |-> {}]
    /\ http = NoExchange
    /\ heap = <<>>
    /\ task = NoTask
    /\ cache = <<>>
    /\ stats = [hits |-> 0, misses |-> 0, totalAccessTime |-> 0, accessCount |-> 0]
    /\ now = 0
    /\ cleanupTimer = TRUE
    /\ last = NoCall

\* the state after construction under the default configuration
InitCache ==
    /\ InitFields
    /\ serverConfig = LoadedConfig(TRUE)

Init ==
    /\ InitCache
    /\ workload \in Workloads

\* what set logs: the unknown type, or the SET (after the EVICTED line, if any)
SetLog(cacheType) == IF cacheType \in DOMAIN configs THEN "SET" ELSE "UNKNOWN_TYPE"

SetEvicted(c, cacheType) ==
    IF cacheType \in DOMAIN configs THEN LruKey(c, cacheType, configs[cacheType]) ELSE NoKey

\* weatherCache.set(key, data, cacheType), which returns nothing
SetCall(key, data, cacheType) ==
    /\ cache' = SetCache(cache, key, data, cacheType, now)
    /\ last' = Call("set", key, cacheType, data, 0, SetLog(cacheType),
                    SetEvicted(cache, cacheType))
    /\ UNCHANGED <<stats, now, cleanupTimer, workload, layers>>

\* weatherCache.get(key, type)
GetCall(key, type) ==
    LET out == GetOutcome(cache, stats, key, now)
    IN  /\ stats.accessCount < MaxGets
        /\ cache' = out.cache
        /\ stats' = out.stats
        /\ last' = Call("get", key, type, out.result, 0, out.log, NoKey)
        /\ UNCHANGED <<now, cleanupTimer, workload, layers>>

\* a caller stores what it fetched for the request p
Set(p) == SetCall(generateKey(p), Payload(now), p.type)

\* a caller looks the request p up
Get(p) == GetCall(generateKey(p), p.type)

\* callers that name a category without configuration
SetUnknownType(p) ==
    SetCall(generateKey([p EXCEPT !.type = UNKNOWN_TYPE]), Payload(now), UNKNOWN_TYPE)

GetUnknownType(p) == GetCall(generateKey(p), UNKNOWN_TYPE)

\* weatherCache.invalidate(pattern), which returns the number of keys deleted
InvalidateCall(op, pattern, type) ==
    /\ cache' = InvalidateCache(cache, pattern)
    /\ last' = Call(op, pattern, type, Null, Len(InvalidateMatches(cache, pattern)),
                    "", NoKey)
    /\ UNCHANGED <<stats, now, cleanupTimer, workload, layers>>

Invalidate == InvalidateCall("invalidate", NoPattern, <<>>)

InvalidateByType(type) == InvalidateCall("invalidateByType", TypePattern(type), type)

InvalidateByLocation(loc) ==
    InvalidateCall("invalidateByLocation", LocationPattern(loc[1], loc[2]), <<>>)

\* the callback of the timer startCleanup arms
Cleanup ==
    /\ cleanupTimer
    /\ cache' = CleanupCache(cache, now)
    /\ last' = Call("cleanup", NoKey, <<>>, Null, Len(cache) - Len(CleanupCache(cache, now)),
                    "", NoKey)
    /\ UNCHANGED <<stats, now, cleanupTimer, workload, layers>>

\* time passes
Tick ==
    /\ now < MaxTicks * ClockStep
    /\ now' = now + ClockStep
    /\ UNCHANGED <<cache, stats, cleanupTimer, last, workload, layers>>

WorkloadTypes == { p.type : p \in workload }
WorkloadLocations == { <<p.latitude, p.longitude>> : p \in workload }

Next ==
    \/ \E p \in workload : Set(p)
    \/ \E p \in workload : Get(p)
    \/ Invalidate
    \/ \E type \in WorkloadTypes : InvalidateByType(type)
    \/ \E loc \in WorkloadLocations : InvalidateByLocation(loc)
    \/ Cleanup
    \/ Tick

Spec == Init /\ [][Next]_vars

----------------------------------------------------------------------------
(* Properties of the cache specification *)

\* the keys of a map
Keys(c) == { c[i].key : i \in 1..Len(c) }

\* C1: for each of the four categories, the number of entries whose key starts
\* with '<category>:' never exceeds the category's maxSize, whatever sets,
\* gets, invalidations and sweeps were made (every set using a key generated
\* for the category it passes).
C1_CapacityBound ==
    \A type \in CacheType : Len(TypeEntries(cache, type)) <= configs[type].maxSize

\* a set has just evicted another entry of a full category, which is full again
C1_EvictionAtCapacity ==
    /\ last.op = "set"
    /\ last.evicted \notin {NoKey, last.key}
    /\ Has(cache, last.key)
    /\ Len(TypeEntries(cache, last.type)) = configs[last.type].maxSize

\* C2: get returns the payload of a present entry exactly when
\* now - timestamp <= ttl (an entry of age ttl is still fresh) and returns
\* absent when now - timestamp > ttl, whether the sweeper has run or not.
C2_NeverReturnedOnceStale ==
    [][\A p \in workload :
          Get(p) =>
             LET key == generateKey(p)
             IN  IF Has(cache, key) /\ now - EntryOf(cache, key).timestamp <= EntryOf(cache, key).ttl
                 THEN last'.ret = EntryOf(cache, key).data /\ last'.ret # Null
                 ELSE last'.ret = Null]_vars

\* a get has just found a stale entry the sweeper had not removed, and
\* answered absent
C2_StaleEntryRefused ==
    /\ last.op = "get"
    /\ last.log = "EXPIRED"
    /\ last.ret = Null
    /\ ~Has(cache, last.key)

\* C3: a set on a key that is already present replaces its payload, resets
\* timestamp and lastAccess to now and leaves the number of entries of the
\* store unchanged, also when the key's category already holds maxSize entries.
C3_IdempotentOverwrite ==
    [][\A p \in workload :
          (Set(p) /\ Has(cache, generateKey(p))) =>
             /\ Has(cache', generateKey(p))
             /\ EntryOf(cache', generateKey(p)).data = Payload(now)
             /\ EntryOf(cache', generateKey(p)).timestamp = now
             /\ EntryOf(cache', generateKey(p)).lastAccess = now
             /\ Len(cache') = Len(cache)]_vars

\* C4: invalidateByType(A) removes every entry of category A and leaves every
\* entry of every other category B in the store, untouched.
C4_TypeInvalidationScoped ==
    [][\A type \in WorkloadTypes :
          InvalidateByType(type) =>
             \A i \in 1..Len(cache) :
                IF StartsWith(cache[i].key, type \o <<":">>)
                THEN ~Has(cache', cache[i].key)
                ELSE Has(cache', cache[i].key) /\ EntryOf(cache', cache[i].key) = cache[i]]_vars

\* C5: when set is called for category c while c holds exactly maxSize entries,
\* one entry is removed, its key starts with 'c:' and its lastAccess is the
\* minimum among the entries of c: no entry of c with a strictly larger
\* lastAccess than another entry of c is the victim.
C5_LruSelection ==
    [][\A p \in workload :
          (Set(p) /\ Len(TypeEntries(cache, p.type)) = configs[p.type].maxSize) =>
             LET typeEntries == TypeEntries(cache, p.type)
                 victim == last'.evicted
             IN  /\ victim \in Keys(typeEntries)
                 /\ \A i \in 1..Len(typeEntries) :
                       EntryOf(cache, victim).lastAccess <= typeEntries[i].lastAccess
                 /\ Keys(cache) \ Keys(cache') \subseteq {victim}
                 /\ victim # generateKey(p) => victim \notin Keys(cache')]_vars

\* a set has just evicted an entry while an entry of the category that was written
\* no later, but read since, stays
C5_ReadEntrySurvives ==
    /\ last.op = "set"
    /\ last.evicted \notin {NoKey, last.key}
    /\ \E i \in 1..Len(cache) :
          /\ cache[i].key # last.key
          /\ StartsWith(cache[i].key, last.type \o <<":">>)
          /\ cache[i].accessCount >= 1
          /\ cache[i].lastAccess > cache[i].timestamp

\* C10: invalidateByLocation(lat, lon) removes every entry, of every category,
\* whose key was generated from coordinates that round to the same 4-decimal
\* (lat, lon) pair, and returns the number of entries it removed.
C10_LocationInvalidation ==
    [][\A loc \in WorkloadLocations :
          InvalidateByLocation(loc) =>
             /\ \A p \in workload :
                   (/\ RoundCoordinate(p.latitude) = RoundCoordinate(loc[1])
                    /\ RoundCoordinate(p.longitude) = RoundCoordinate(loc[2]))
                   => ~Has(cache', generateKey(p))
             /\ last'.count = Len(cache) - Len(cache')]_vars

\* invalidateByLocation, called with coordinates that differ from those of the
\* requests in the fifth decimal, has just removed entries of two categories
C10_TwoCategoriesRemoved ==
    /\ last.op = "invalidateByLocation"
    /\ last.key = LocationPattern(ParisNoisy[1], ParisNoisy[2])
    /\ last.count >= 2
    /\ cache = <<>>

----------------------------------------------------------------------------
(* The cache specification with callers that name an unconfigured category *)

NextUnknownType ==
    \/ Next
    \/ \E p \in workload : SetUnknownType(p)
    \/ \E p \in workload : GetUnknownType(p)

InitUnknownType ==
    /\ InitCache
    /\ workload = HourlyWorkload

SpecUnknownType == InitUnknownType /\ [][NextUnknownType]_vars

----------------------------------------------------------------------------
(* The POST /mcp/call route: cache middleware, validation, tool handlers *)

\* the middleware the route's switch picks for a tool name
ToolCacheType(name) ==
    CASE name = "get_current_weather" -> CURRENT_WEATHER
      [] name = "get_weather_forecast" -> FORECAST

\* !args?.name: the argument is missing or is the number 0
Falsy(args, name) == name \notin DOMAIN args \/ args[name] = 0

\* `${args.name}`
Text(args, name) == IF name \in DOMAIN args THEN args[name] ELSE "undefined"

\* the keyGenerator of currentWeatherCache and of forecastCache
keyGenerator(req) ==
    LET args == req.arguments
    IN  IF Falsy(args, "latitude") \/ Falsy(args, "longitude") THEN Null
        ELSE IF req.name = "get_current_weather"
        THEN KeyParams(CURRENT_WEATHER, <<args.latitude, args.longitude>>,
                       [timezone |-> Text(args, "timezone"),
                        temperature_unit |-> Text(args, "temperature_unit"),
                        wind_speed_unit |-> Text(args, "wind_speed_unit"),
                        precipitation_unit |-> Text(args, "precipitation_unit")])
        ELSE KeyParams(FORECAST, <<args.latitude, args.longitude>>,
                       [days |-> ToString(IF Falsy(args, "days") THEN 7 ELSE args.days),
                        timezone |-> Text(args, "timezone"),
                        temperature_unit |-> Text(args, "temperature_unit")])

\* one degree, in the unit of the coordinates
Degree == 10 * Precision

\* CoordinateSchema
ValidCoordinates(args) ==
    /\ {"latitude", "longitude"} \subseteq DOMAIN args
    /\ args.latitude >= -90 * Degree /\ args.latitude <= 90 * Degree
    /\ args.longitude >= -180 * Degree /\ args.longitude <= 180 * Degree

\* z.enum(values).optional()
ValidEnum(args, name, values) == name \in DOMAIN args => args[name] \in values

\* TimezoneSchema, for the zone names the requests of the model use
ValidTimezone(args) == ValidEnum(args, "timezone", {"auto", "Europe/Paris"})

\* CurrentWeatherSchema and ForecastSchema
ValidArguments(req) ==
    LET args == req.arguments
    IN  /\ ValidCoordinates(args)
        /\ ValidTimezone(args)
        /\ ValidEnum(args, "temperature_unit", {"celsius", "fahrenheit"})
        /\ IF req.name = "get_current_weather"
           THEN /\ ValidEnum(args, "wind_speed_unit", {"kmh", "ms", "mph", "kn"})
                /\ ValidEnum(args, "precipitation_unit", {"mm", "inch"})
           ELSE ValidEnum(args, "days", 1..7)

\* the key parameters of OptimizedWeatherService.getCurrentWeather, called by
\* the handler with timezone: params.timezone || 'auto'
ServiceKeyParams(req) ==
    LET args == req.arguments
    IN  KeyParams(CURRENT_WEATHER, <<args.latitude, args.longitude>>,
                  [timezone |-> IF "timezone" \in DOMAIN args THEN args.timezone ELSE "auto",
                   temperature_unit |-> Text(args, "temperature_unit"),
                   wind_speed_unit |-> Text(args, "wind_speed_unit"),
                   precipitation_unit |-> Text(args, "precipitation_unit")])

\* { error: mcpError } of handleServerError
ErrorBody(statusCode, t) == [error |-> [code |-> statusCode, timestamp |-> t], bytes |-> 150]

\* the MCPCallResponse built from what the upstream answered
ToolBody(data) == [content |-> data.fetchedAt, bytes |-> 300]

\* response.current_weather is there: the object is an upstream answer
HasWeather(data) == "fetchedAt" \in DOMAIN data

\* res.json as the middleware replaced it after a miss: the body is stored
\* whatever the status; without cache key res.json is the original
StoreResponse(c, cacheKey, body, type, t) ==
    IF cacheKey = NoKey THEN c ELSE SetCache(c, cacheKey, body, type, t)

\* the exchange once res.json has been called
Sent(exchange, statusCode, body, t) ==
    [exchange EXCEPT !.phase = "sent", !.status = statusCode, !.body = body, !.sentAt = t]

\* a tool call arrives: the cache middleware, then handleCallTool up to the
\* request it sends upstream
HttpCall(req) ==
    /\ http.phase # "upstream"
    /\ http.count < MaxRequests
    /\ LET type == ToolCacheType(req.name)
           cacheParams == keyGenerator(req)
           cacheKey == IF cacheParams = Null THEN NoKey ELSE generateKey(cacheParams)
           looked == IF cacheKey = NoKey
                     THEN [cache |-> cache, stats |-> stats, result |-> Null, log |-> ""]
                     ELSE GetOutcome(cache, stats, cacheKey, now)
           started == [count |-> http.count + 1, request |-> req, phase |-> "upstream",
                       cacheKey |-> cacheKey,
                       xCache |-> IF cacheKey = NoKey THEN "NONE"
                                  ELSE IF looked.result # Null THEN "HIT" ELSE "MISS",
                       status |-> 0, body |-> Null, sentAt |-> 0]
           inner == GetOutcome(looked.cache, looked.stats,
                               generateKey(ServiceKeyParams(req)), now)
           innerBody == IF HasWeather(inner.result) THEN ToolBody(inner.result)
                        ELSE ErrorBody(503, now)
       IN  IF looked.result # Null
           THEN /\ http' = Sent(started, 200, looked.result, now)
                /\ cache' = looked.cache
                /\ stats' = looked.stats
           ELSE IF ~ValidArguments(req)
           THEN /\ http' = Sent(started, 400, ErrorBody(400, now), now)
                /\ cache' = StoreResponse(looked.cache, cacheKey, ErrorBody(400, now), type, now)
                /\ stats' = looked.stats
           ELSE IF req.name # "get_current_weather"
           THEN /\ http' = started
                /\ cache' = looked.cache
                /\ stats' = looked.stats
           ELSE IF inner.result # Null
           THEN /\ http' = Sent(started, IF HasWeather(inner.result) THEN 200 ELSE 503,
                                innerBody, now)
                /\ cache' = StoreResponse(inner.cache, cacheKey, innerBody, type, now)
                /\ stats' = inner.stats
           ELSE /\ http' = started
                /\ cache' = inner.cache
                /\ stats' = inner.stats
    /\ UNCHANGED <<now, cleanupTimer, last, workload, heap, task, nextSweep, observed, handlers, serverConfig, shutdown>>

\* the upstream answers: the service stores the answer, the handler sends the body
UpstreamReply ==
    /\ http.phase = "upstream"
    /\ LET req == http.request
           data == Payload(now)
           afterService == IF req.name = "get_current_weather"
                           THEN SetCache(cache, generateKey(ServiceKeyParams(req)), data,
                                         CURRENT_WEATHER, now)
                           ELSE cache
       IN  /\ cache' = StoreResponse(afterService, http.cacheKey, ToolBody(data),
                                     ToolCacheType(req.name), now)
           /\ http' = Sent(http, 200, ToolBody(data), now)
    /\ UNCHANGED <<stats, now, cleanupTimer, last, workload, heap, task, nextSweep, observed, handlers, serverConfig, shutdown>>

\* the upstream request times out: a NETWORK_ERROR, answered by handleServerError
UpstreamFails ==
    /\ http.phase = "upstream"
    /\ cache' = StoreResponse(cache, http.cacheKey, ErrorBody(503, now),
                              ToolCacheType(http.request.name), now)
    /\ http' = Sent(http, 503, ErrorBody(503, now), now)
    /\ UNCHANGED <<stats, now, cleanupTimer, last, workload, heap, task, nextSweep, observed, handlers, serverConfig, shutdown>>

\* a request for /cache/clear, answered by cacheInvalidationMiddleware
CacheClear ==
    /\ serverConfig.cacheEnabled
    /\ http.phase # "upstream"
    /\ cache' = InvalidateCache(cache, NoPattern)
    /\ http' = [count |-> http.count, request |-> [path |-> "/cache/clear"],
                phase |-> "sent", cacheKey |-> NoKey, xCache |-> "NONE", status |-> 200,
                body |-> [entriesRemoved |-> Len(cache)], sentAt |-> now]
    /\ UNCHANGED <<stats, now, cleanupTimer, last, workload, heap, task, nextSweep, observed, handlers, serverConfig, shutdown>>

\* tool calls: latitude 1, longitude 2; latitude 200; latitude 0; 15 forecast
\* days; a forecast with the default days; an unknown temperature unit
ReqParis ==
    [name |-> "get_current_weather",
     arguments |-> [latitude |-> Paris[1], longitude |-> Paris[2]]]
ReqBadLatitude ==
    [name |-> "get_current_weather",
     arguments |-> [latitude |-> 200 * Degree, longitude |-> Paris[2]]]
ReqEquator ==
    [name |-> "get_current_weather",
     arguments |-> [latitude |-> 0, longitude |-> Paris[2]]]
ReqTooManyDays ==
    [name |-> "get_weather_forecast",
     arguments |-> [latitude |-> Paris[1], longitude |-> Paris[2], days |-> 15]]
ReqForecast ==
    [name |-> "get_weather_forecast",
     arguments |-> [latitude |-> Paris[1], longitude |-> Paris[2]]]
ReqKelvin ==
    [name |-> "get_current_weather",
     arguments |-> [latitude |-> Paris[1], longitude |-> Paris[2],
                    temperature_unit |-> "kelvin"]]

\* the tool calls the client of one run chooses from
HttpWorkloads ==
    { {ReqParis, ReqBadLatitude}, {ReqEquator, ReqForecast}, {ReqTooManyDays, ReqKelvin} }

InitHttp ==
    /\ InitCache
    /\ workload \in HttpWorkloads

NextHttp ==
    \/ \E req \in workload : HttpCall(req)
    \/ UpstreamReply
    \/ UpstreamFails
    \/ CacheClear
    \/ Cleanup
    \/ Tick

SpecHttp == InitHttp /\ [][NextHttp]_vars

\* C8: a tool call with invalid arguments (latitude or longitude out of range,
\* too many forecast days, an invalid unit or timezone) is answered with a 4xx
\* status on every occurrence, whatever requests were served before it, the
\* identical one included.
C8_InvalidArgumentsRejected ==
    (http.phase = "sent" /\ http.request \in workload /\ ~ValidArguments(http.request))
    => http.status \in 400..499

\* C9: for a cached tool and valid arguments (the value 0 included), the first
\* request after a cache clear is answered with X-Cache: MISS, and an identical
\* request that follows an answered one within the TTL, with no clear or
\* eviction in between, is answered with X-Cache: HIT.
C9_MissThenHit ==
    [][\A req \in workload :
          (HttpCall(req) /\ ValidArguments(req) /\ http.phase = "sent") =>
             /\ http.request = [path |-> "/cache/clear"] => http'.xCache = "MISS"
             /\ (/\ http.request = req
                 /\ now - http.sentAt <= configs[ToolCacheType(req.name)].ttl)
                => http'.xCache = "HIT"]_vars

----------------------------------------------------------------------------
(* OptimizedWeatherService.getSmartForecast, with getForecast and              *)
(* getHourlyForecast.  The cache holds references: the data of an entry is     *)
(* [ref |-> i], the object is heap[i], with the sections it has (daily: is it  *)
(* there; hourly: 0, or the number of the upstream answer it came with).       *)

\* what getSmartForecast passes to getForecast for a requestType
ForecastDays(requestType) == IF requestType = "basic" THEN 3 ELSE 7

IncludeHourly(requestType) == requestType = "extended"

\* the key of getForecast; Math.min(params.days || 7, 7) leaves 3 and 7 as they are
ForecastKey(call) ==
    generateKey(KeyParams(FORECAST, call.location,
        [days |-> ToString(ForecastDays(call.requestType)),
         timezone |-> "undefined",
         temperature_unit |-> "undefined",
         includeDaily |-> "true",
         includeHourly |-> IF IncludeHourly(call.requestType) THEN "true" ELSE "false"]))

\* the key of getHourlyForecast, called with forecastDays: 2
HourlyKey(call) ==
    generateKey(KeyParams(HOURLY_FORECAST, call.location,
        [forecast_days |-> ToString(2),
         timezone |-> "undefined",
         temperature_unit |-> "undefined"]))

\* the data of a cache entry: a reference to the object
Ref(id) == [ref |-> id, bytes |-> 100]

\* if (hourly.hourly && forecast.daily) { forecast.hourly = hourly.hourly; }
Merge(h, forecast, hourly) ==
    IF h[hourly].hourly # 0 /\ h[forecast].daily
    THEN [h EXCEPT ![forecast].hourly = h[hourly].hourly]
    ELSE h

\* the 'detailed' case from the call of getHourlyForecast on, forecast being the
\* object getForecast returned
HourlyStage(c, st, h, started, forecast) ==
    LET out == GetOutcome(c, st, HourlyKey(started.call), now)
    IN  IF out.result # Null
        THEN [cache |-> out.cache, stats |-> out.stats,
              heap |-> Merge(h, forecast, out.result.ref),
              task |-> [started EXCEPT !.pc = "returned", !.forecast = forecast,
                                       !.result = forecast]]
        ELSE [cache |-> out.cache, stats |-> out.stats, heap |-> h,
              task |-> [started EXCEPT !.pc = "hourly", !.forecast = forecast]]

\* getSmartForecast(call) up to its first request upstream
GetSmartForecast(call) ==
    /\ task.pc \notin {"forecast", "hourly"}
    /\ task.count < MaxCalls
    /\ LET started == [count |-> task.count + 1, call |-> call, pc |-> "forecast",
                       forecast |-> 0, result |-> 0]
           out == GetOutcome(cache, stats, ForecastKey(call), now)
           after == IF out.result = Null
                    THEN [cache |-> out.cache, stats |-> out.stats, heap |-> heap,
                          task |-> started]
                    ELSE IF call.requestType = "detailed"
                    THEN HourlyStage(out.cache, out.stats, heap, started, out.result.ref)
                    ELSE [cache |-> out.cache, stats |-> out.stats, heap |-> heap,
                          task |-> [started EXCEPT !.pc = "returned",
                                                   !.result = out.result.ref]]
       IN  /\ cache' = after.cache
           /\ stats' = after.stats
           /\ heap' = after.heap
           /\ task' = after.task
    /\ UNCHANGED <<now, cleanupTimer, last, workload, http, nextSweep, observed, handlers, serverConfig, shutdown>>

\* the upstream answers getForecast: the answer is stored and returned
ForecastReply ==
    /\ task.pc = "forecast"
    /\ LET id == Len(heap) + 1
           object == [daily |-> TRUE,
                      hourly |-> IF IncludeHourly(task.call.requestType) THEN id ELSE 0]
           stored == SetCache(cache, ForecastKey(task.call), Ref(id), FORECAST, now)
           after == IF task.call.requestType = "detailed"
                    THEN HourlyStage(stored, stats, Append(heap, object), task, id)
                    ELSE [cache |-> stored, stats |-> stats, heap |-> Append(heap, object),
                          task |-> [task EXCEPT !.pc = "returned", !.result = id]]
       IN  /\ cache' = after.cache
           /\ stats' = after.stats
           /\ heap' = after.heap
           /\ task' = after.task
    /\ UNCHANGED <<now, cleanupTimer, last, workload, http, nextSweep, observed, handlers, serverConfig, shutdown>>

\* the upstream answers getHourlyForecast: the answer is stored, its hourly
\* section is merged into the forecast object, which is returned
HourlyReply ==
    /\ task.pc = "hourly"
    /\ LET id == Len(heap) + 1
           object == [daily |-> FALSE, hourly |-> id]
       IN  /\ cache' = SetCache(cache, HourlyKey(task.call), Ref(id), HOURLY_FORECAST, now)
           /\ heap' = Merge(Append(heap, object), task.forecast, id)
           /\ task' = [task EXCEPT !.pc = "returned", !.result = task.forecast]
    /\ UNCHANGED <<stats, now, cleanupTimer, last, workload, http, nextSweep, observed, handlers, serverConfig, shutdown>>

\* the upstream request fails: getSmartForecast rejects
ServiceUpstreamFails ==
    /\ task.pc \in {"forecast", "hourly"}
    /\ task' = [task EXCEPT !.pc = "threw"]
    /\ UNCHANGED <<cache, stats, now, cleanupTimer, last, workload, http, heap, nextSweep, observed, handlers, serverConfig, shutdown>>

SmartCall(location, requestType) == [location |-> location, requestType |-> requestType]

\* the calls the user of the service chooses from in one run
ServiceWorkloads ==
    { {SmartCall(Paris, "detailed"), SmartCall(Paris, "basic")},
      {SmartCall(Oslo, "detailed"), SmartCall(Oslo, "extended")} }

InitService ==
    /\ InitCache
    /\ workload \in ServiceWorkloads

NextService ==
    \/ \E call \in workload : GetSmartForecast(call)
    \/ ForecastReply
    \/ HourlyReply
    \/ ServiceUpstreamFails
    \/ Invalidate
    \/ Cleanup
    \/ Tick

SpecService == InitService /\ [][NextService]_vars

\* C7: the payload object an entry holds is never modified between the set that
\* inserted it and the entry's removal: no step changes an object that an entry
\* of the store holds before and after the step.
C7_PayloadImmutable ==
    [][\A i \in 1..Len(cache) :
          (/\ Has(cache', cache[i].key)
           /\ EntryOf(cache', cache[i].key).data = cache[i].data)
          => heap'[cache[i].data.ref] = heap[cache[i].data.ref]]_vars

----------------------------------------------------------------------------
(* The cache with its timer in real time: the callback of setInterval runs     *)
(* when it is due, every SweepInterval, until destroy clears the timer.        *)

\* the clock of this specification advances by half a period
SweepStep == SweepInterval \div 2

\* the callback of the timer, at the time it is due
TimerFires ==
    /\ cleanupTimer
    /\ now = nextSweep
    /\ cache' = CleanupCache(cache, now)
    /\ nextSweep' = nextSweep + SweepInterval
    /\ last' = Call("cleanup", NoKey, <<>>, Null, Len(cache) - Len(CleanupCache(cache, now)),
                    "", NoKey)
    /\ UNCHANGED <<stats, now, cleanupTimer, workload, http, heap, task, observed, handlers, serverConfig, shutdown>>

\* time passes, but not past the time the timer is due
TimedTick ==
    /\ now < MaxSweeps * SweepInterval
    /\ cleanupTimer => now + SweepStep <= nextSweep
    /\ now' = now + SweepStep
    /\ UNCHANGED <<cache, stats, cleanupTimer, last, workload, layers>>

\* a destroy that clears the map and leaves the interval armed
DestroyOutcomeKeepingTimer(c, st) == [cache |-> <<>>, stats |-> st, cleanupTimer |-> TRUE]

\* a destroy that also resets the counters
DestroyOutcomeResetting(c, st) ==
    [cache |-> <<>>,
     stats |-> [hits |-> 0, misses |-> 0, totalAccessTime |-> 0, accessCount |-> 0],
     cleanupTimer |-> FALSE]

\* destroy(): the fields after clearInterval and cache.clear()
DestroyOutcome(c, st) == [cache |-> <<>>, stats |-> st, cleanupTimer |-> FALSE]

Destroy ==
    /\ cleanupTimer
    /\ cache' = DestroyOutcome(cache, stats).cache
    /\ stats' = DestroyOutcome(cache, stats).stats
    /\ cleanupTimer' = DestroyOutcome(cache, stats).cleanupTimer
    /\ last' = Call("destroy", NoKey, <<>>, Null, 0, "", NoKey)
    /\ UNCHANGED <<now, workload, layers>>

\* two current weather requests
CurrentWeatherWorkload ==
    { KeyParams(CURRENT_WEATHER, Paris, NoParameters),
      KeyParams(CURRENT_WEATHER, Oslo, NoParameters) }

InitTimer ==
    /\ InitCache
    /\ workload = CurrentWeatherWorkload

NextTimer ==
    \/ \E p \in workload : Set(p)
    \/ \E p \in workload : Get(p)
    \/ TimerFires
    \/ TimedTick
    \/ Destroy

\* the timer and the clock are never stopped for good while they can advance
SpecTimer ==
    InitTimer /\ [][NextTimer]_vars /\ WF_vars(TimerFires) /\ WF_vars(TimedTick)

TimerKeys == { generateKey(p) : p \in CurrentWeatherWorkload }

\* C11: while the sweep timer runs, an entry written at T with TTL D and not
\* overwritten is absent at every time later than T + D + one sweep interval,
\* also when no get or set is issued for its key; and, the timer being fair,
\* every expired entry is eventually removed.
C11_SweeperBound ==
    /\ [](cleanupTimer =>
            \A i \in 1..Len(cache) :
               now <= cache[i].timestamp + cache[i].ttl + SweepInterval)
    /\ \A key \in TimerKeys :
          (cleanupTimer /\ Has(cache, key) /\ now - EntryOf(cache, key).timestamp > EntryOf(cache, key).ttl)
          ~> (~Has(cache, key) \/ now - EntryOf(cache, key).timestamp <= EntryOf(cache, key).ttl)

\* the timer is about to remove, one period after its expiry time, an entry
\* that was never read
C11_RemovedOnePeriodLate ==
    /\ cleanupTimer
    /\ now = nextSweep
    /\ \E i \in 1..Len(cache) :
          /\ now = cache[i].timestamp + cache[i].ttl + SweepInterval
          /\ cache[i].accessCount = 0

----------------------------------------------------------------------------
(* Callers that tally what their lookups return, and getStats().              *)

\* the reduce of getStats over the sizes of the entries
RECURSIVE MemoryUsage(_)
MemoryUsage(c) == IF c = <<>> THEN 0 ELSE Head(c).size + MemoryUsage(Tail(c))

\* getStats(): hitRate is the quotient hits / totalRequests, kept as a fraction
getStats(c, st) ==
    LET totalRequests == st.hits + st.misses
    IN  [hits |-> st.hits,
         misses |-> st.misses,
         entries |-> Len(c),
         memoryUsage |-> MemoryUsage(c),
         hitRate |-> IF totalRequests > 0
                     THEN [num |-> st.hits, den |-> totalRequests]
                     ELSE [num |-> 0, den |-> 1]]

\* a caller looks the request p up and notes whether it was given a payload
ObservedGet(p) ==
    LET out == GetOutcome(cache, stats, generateKey(p), now)
    IN  /\ stats.accessCount < MaxObservedGets
        /\ cache' = out.cache
        /\ stats' = out.stats
        /\ last' = Call("get", generateKey(p), p.type, out.result, 0, out.log, NoKey)
        /\ observed' = IF out.result = Null
                       THEN [observed EXCEPT !.absent = @ + 1]
                       ELSE [observed EXCEPT !.payload = @ + 1]
        /\ UNCHANGED <<now, cleanupTimer, workload, http, heap, task, nextSweep, handlers, serverConfig, shutdown>>

InitStats ==
    /\ InitCache
    /\ workload = CurrentWeatherWorkload

NextStats ==
    \/ \E p \in workload : Set(p)
    \/ \E p \in workload : ObservedGet(p)
    \/ Invalidate
    \/ Cleanup
    \/ Tick

SpecStats == InitStats /\ [][NextStats]_vars

\* C12: from a fresh cache, after any sequence of gets, hits is the number of
\* gets that returned a payload, misses the number that returned absent (key
\* missing or entry stale), and getStats().hitRate is hits / (hits + misses),
\* 0 when no get was made; one miss and one hit give 1, 1 and 0.5.
C12_HitMissAccounting ==
    LET s == getStats(cache, stats)
        gets == observed.payload + observed.absent
    IN  /\ s.hits = observed.payload
        /\ s.misses = observed.absent
        /\ gets = 0 => s.hitRate.num = 0
        /\ gets > 0 => s.hitRate.num * gets = observed.payload * s.hitRate.den
        /\ (observed.payload = 1 /\ observed.absent = 1) => 2 * s.hitRate.num = s.hitRate.den

\* a missing key, a hit and a stale entry have all been looked up
C12_MissHitStale ==
    /\ observed = [payload |-> 1, absent |-> 2]
    /\ last.op = "get"
    /\ last.log = "EXPIRED"

----------------------------------------------------------------------------
(* Concurrent calls of OptimizedWeatherService.getCurrentWeather for the same *)
(* place: each runs to its await, and resumes when the upstream answers.      *)

\* the params every handler is called with
RaceParams == [latitude |-> 1, longitude |-> 2]

\* the cacheKey getCurrentWeather generates
CurrentWeatherKey(params) ==
    generateKey(KeyParams(CURRENT_WEATHER, <<params.latitude * Degree, params.longitude * Degree>>,
                          [n \in {"timezone", "temperature_unit", "wind_speed_unit",
                                  "precipitation_unit"} |-> "undefined"]))

\* the response the upstream gives handler h at time t
Response(h, t) == [fetchedAt |-> t, bytes |-> 100, to |-> h]

\* getCurrentWeather up to its return of the cached value or its await
HandlerGet(h) ==
    LET out == GetOutcome(cache, stats, CurrentWeatherKey(RaceParams), now)
    IN  /\ handlers.pc[h] = "start"
        /\ cache' = out.cache
        /\ stats' = out.stats
        /\ handlers' = [handlers EXCEPT
                          !.pc[h] = IF out.result = Null THEN "await" ELSE "returned"]
        /\ UNCHANGED <<now, cleanupTimer, last, workload, http, heap, task, nextSweep,
                       observed, serverConfig, shutdown>>

\* the upstream answers handler h: the response is stored and returned
HandlerReply(h) ==
    /\ handlers.pc[h] = "await"
    /\ cache' = SetCache(cache, CurrentWeatherKey(RaceParams), Response(h, now),
                         CURRENT_WEATHER, now)
    /\ handlers' = [handlers EXCEPT
                      !.pc[h] = "returned",
                      !.lastSet = [data |-> Response(h, now), at |-> now],
                      !.written = @ \cup {h}]
    /\ UNCHANGED <<stats, now, cleanupTimer, last, workload, http, heap, task, nextSweep,
                   observed, serverConfig, shutdown>>

\* the upstream fails handler h: the await throws and nothing is stored
HandlerFails(h) ==
    /\ handlers.pc[h] = "await"
    /\ handlers' = [handlers EXCEPT !.pc[h] = "threw"]
    /\ UNCHANGED <<cache, stats, now, cleanupTimer, last, workload, http, heap, task,
                   nextSweep, observed, serverConfig, shutdown>>

InitRace ==
    /\ InitCache
    /\ workload = {}

NextRace ==
    \/ \E h \in 1..MaxHandlers : HandlerGet(h)
    \/ \E h \in 1..MaxHandlers : HandlerReply(h)
    \/ \E h \in 1..MaxHandlers : HandlerFails(h)
    \/ Cleanup
    \/ Tick

SpecRace == InitRace /\ [][NextRace]_vars

\* the number of entries the map holds under key
EntriesFor(c, key) == Cardinality({ i \in 1..Len(c) : c[i].key = key })

\* C13: under any interleaving of concurrent handlers that each get(k), miss,
\* await the upstream and then set(k), the store holds at most one entry for k
\* at every moment, and once all handlers have finished the entry for k holds
\* the payload of the set that executed last.
C13_BenignRace ==
    LET k == CurrentWeatherKey(RaceParams)
    IN  /\ EntriesFor(cache, k) <= 1
        /\ ( /\ \A h \in 1..MaxHandlers : handlers.pc[h] \in {"returned", "threw"}
             /\ handlers.lastSet # Null
             /\ now - handlers.lastSet.at <= configs[CURRENT_WEATHER].ttl )
           => ( /\ Has(cache, k)
                /\ EntryOf(cache, k).data = handlers.lastSet.data )

\* two handlers missed before either stored; both have stored, the second last
C13_TwoWritersFinished ==
    /\ \A h \in 1..MaxHandlers : handlers.pc[h] = "returned"
    /\ handlers.lastSet # Null
    /\ handlers.lastSet.data.to = 2
    /\ stats.misses = MaxHandlers
    /\ Has(cache, CurrentWeatherKey(RaceParams))
    /\ EntryOf(cache, CurrentWeatherKey(RaceParams)).data.to = 2

----------------------------------------------------------------------------
(* Callers whose coordinates differ in the fifth decimal.                      *)

\* 1.00006, 2: less than 0.0001 degrees from Paris, on the other side of a
\* rounding boundary
ParisEdge == <<100006, 200000>>

NoisyWorkload ==
    { KeyParams(CURRENT_WEATHER, Paris, NoParameters),
      KeyParams(CURRENT_WEATHER, ParisNoisy, NoParameters),
      KeyParams(CURRENT_WEATHER, ParisEdge, NoParameters),
      KeyParams(HOURLY_FORECAST, Paris, NoParameters),
      KeyParams(HOURLY_FORECAST, ParisNoisy, NoParameters) }

InitRounding ==
    /\ InitCache
    /\ workload = NoisyWorkload

NextRounding ==
    \/ \E p \in workload : Set(p)
    \/ \E p \in workload : Get(p)
    \/ Cleanup
    \/ Tick

SpecRounding == InitRounding /\ [][NextRounding]_vars

\* a step of get: no other method counts an access
GetStep == stats'.accessCount = stats.accessCount + 1

\* if the entry set for p is live and the step is get for q, the get returns
\* the payload of that entry
ReturnsPayloadOf(p, q) ==
    ( /\ GetStep
      /\ last'.type = q.type
      /\ last'.key = generateKey(q)
      /\ Has(cache, generateKey(p))
      /\ now - EntryOf(cache, generateKey(p)).timestamp <= EntryOf(cache, generateKey(p)).ttl )
    => last'.ret = EntryOf(cache, generateKey(p)).data

Distance(a, b) == IF a < b THEN b - a ELSE a - b

\* C14: for every category and parameter set, a get whose latitude and
\* longitude each round to the same 4-decimal value as the coordinates of an
\* earlier set returns that set's payload while the entry is live.
C14_RoundingCollapse ==
    [][GetStep => \A p, q \in NoisyWorkload :
          ( /\ p.type = q.type
            /\ p.parameters = q.parameters
            /\ (p.latitude + 5) \div 10 = (q.latitude + 5) \div 10
            /\ (p.longitude + 5) \div 10 = (q.longitude + 5) \div 10 )
          => ReturnsPayloadOf(p, q)]_vars

\* C14 as stated: a get whose latitude and longitude each differ by less than
\* 0.0001 degrees from the coordinates of an earlier set returns that set's
\* payload while the entry is live.
C14_WithinPrecisionCollapse ==
    [][GetStep => \A p, q \in NoisyWorkload :
          ( /\ p.type = q.type
            /\ p.parameters = q.parameters
            /\ Distance(p.latitude, q.latitude) < 10
            /\ Distance(p.longitude, q.longitude) < 10 )
          => ReturnsPayloadOf(p, q)]_vars

\* a get with noisy coordinates has returned the payload set with the exact ones
C14_NoisyGetHit ==
    /\ last.op = "get"
    /\ last.key = generateKey(KeyParams(CURRENT_WEATHER, ParisNoisy, NoParameters))
    /\ last.ret # Null
    /\ Len(cache) = 1
    /\ stats.hits = 1

----------------------------------------------------------------------------
(* generateKey applied to pairs of inputs: the callers write their parameters *)
(* in different orders and their coordinates with noise.                      *)

Objects ==
    { << <<"timezone", "auto">>, <<"temperature_unit", "celsius">> >>,
      << <<"temperature_unit", "celsius">>, <<"timezone", "auto">> >>,
      << <<"timezone", "auto">> >> }

KeyInputs ==
    { KeyParams(type, loc, object) :
        type \in {CURRENT_WEATHER, FORECAST}, loc \in {Paris, ParisNoisy, ParisEdge},
        object \in Objects }

\* a caller stores what it fetched under the key generated for p
StoreFor(p) == SetCall(generateKeyOf(p), Payload(now), p.type)

\* a caller looks up the key generated for p
LookupFor(p) == GetCall(generateKeyOf(p), p.type)

InitKeys ==
    /\ InitCache
    /\ workload \in { {p, q} : p, q \in KeyInputs }

NextKeys ==
    \/ \E p \in workload : StoreFor(p)
    \/ \E p \in workload : LookupFor(p)
    \/ Tick

SpecKeys == InitKeys /\ [][NextKeys]_vars

\* the mapping from names to values an object stands for
MappingOf(object) ==
    [name \in { object[i][1] : i \in 1..Len(object) } |-> ValueOf(object, name)]

\* the same category, coordinates that round to the same 4-decimal values and
\* the same mapping from parameter names to values
SameInput(p, q) ==
    /\ p.type = q.type
    /\ (p.latitude + 5) \div 10 = (q.latitude + 5) \div 10
    /\ (p.longitude + 5) \div 10 = (q.longitude + 5) \div 10
    /\ MappingOf(p.parameters) = MappingOf(q.parameters)

\* C15: generateKey called with the same category, coordinates that round to
\* the same 4-decimal values and the same parameter name-to-value mapping
\* always returns the same key, whatever the order in which the parameter
\* names were supplied and whatever the state of the cache; so callers with
\* the same input never hold two entries.
C15_KeyDeterminism ==
    /\ \A p, q \in workload : SameInput(p, q) => generateKeyOf(p) = generateKeyOf(q)
    /\ (\A p, q \in workload : SameInput(p, q)) => Len(cache) <= 1

\* a caller that wrote its parameters in another order and its coordinates with
\* noise was given what the first caller stored
C15_OtherOrderHit ==
    /\ \E p, q \in workload :
          /\ SameInput(p, q)
          /\ p.parameters # q.parameters
          /\ p.latitude # q.latitude
    /\ Len(cache) = 1
    /\ last.op = "get"
    /\ last.ret # Null

----------------------------------------------------------------------------
(* The server under the configurations the environment can give it.           *)

ConfiguredWorkload == {ReqParis, ReqBadLatitude, ReqForecast}

InitConfigured ==
    /\ InitFields
    /\ serverConfig \in { LoadedConfig(cacheEnabled) : cacheEnabled \in BOOLEAN }
    /\ workload = ConfiguredWorkload

SpecConfigured == InitConfigured /\ [][NextHttp]_vars

\* C16: when the server is configured with CACHE_ENABLED=false, no tool
\* response is served from the cache and no tool response is stored in it.
C16_DisabledCacheUnused ==
    ~serverConfig.cacheEnabled => (http.xCache # "HIT" /\ cache = <<>>)

\* C17: the total number of entries in the response cache, summed over all
\* categories, never exceeds the configured MAX_CACHE_SIZE.
C17_TotalBound == Len(cache) <= serverConfig.maxCacheSize

----------------------------------------------------------------------------
(* Further properties of the cache specification Spec.                        *)

\* C18: invalidate() with no pattern leaves the store with zero entries in
\* every category and returns exactly the number of entries that were present
\* before the call; a stats snapshot taken right after it reports entries 0.
C18_ClearAll ==
    [][Invalidate =>
          /\ \A type \in CacheType : TypeEntries(cache', type) = <<>>
          /\ last'.count = Len(cache)
          /\ getStats(cache', stats').entries = 0]_vars

\* a clear has removed entries of two categories
C18_ClearedTwoCategories ==
    /\ last.op = "invalidate"
    /\ last.count = 2
    /\ cache = <<>>
    /\ workload = { KeyParams(FORECAST, Paris, NoParameters),
                    KeyParams(FORECAST, Oslo, NoParameters),
                    KeyParams(HOURLY_FORECAST, ParisNoisy, NoParameters) }

\* the category named by the prefix of a key
CategoryOf(key) == CHOOSE type \in CacheType : StartsWith(key, type \o <<":">>)

\* the ttl of each category in minutes, as documented
DocumentedTtlMinutes ==
    [type \in CacheType |->
        CASE type = CURRENT_WEATHER -> 10
          [] type = FORECAST -> 60
          [] type = HOURLY_FORECAST -> 30
          [] type = GEOCODING -> 120]

\* C19: every entry in the store carries the TTL configured for the category
\* named by its key prefix (current_weather 10 min, forecast 60 min,
\* hourly_forecast 30 min, geocoding 2 h), fixed at write time; no later
\* operation other than an overwrite changes an entry's ttl or timestamp.
C19_PerCategoryTtl ==
    /\ [](\A i \in 1..Len(cache) :
            /\ cache[i].ttl = configs[CategoryOf(cache[i].key)].ttl
            /\ cache[i].ttl = DocumentedTtlMinutes[CategoryOf(cache[i].key)] * 60 * 1000)
    /\ [][\A i \in 1..Len(cache) :
            ( /\ Has(cache', cache[i].key)
              /\ ~( /\ last'.op = "set"
                    /\ last'.key = cache[i].key
                    /\ \E p \in workload : Set(p) ) )
            => /\ EntryOf(cache', cache[i].key).ttl = cache[i].ttl
               /\ EntryOf(cache', cache[i].key).timestamp = cache[i].timestamp]_vars

\* a forecast entry written two clock steps ago has just been read
C19_OldForecastEntryRead ==
    \E i \in 1..Len(cache) :
       /\ CategoryOf(cache[i].key) = FORECAST
       /\ cache[i].ttl = 60 * 60 * 1000
       /\ cache[i].timestamp = 0
       /\ cache[i].accessCount = 1
       /\ cache[i].lastAccess = 2 * ClockStep

----------------------------------------------------------------------------
(* The cache over its whole life: every public method, destroy included.      *)

InitLifecycle ==
    /\ InitCache
    /\ workload = CurrentWeatherWorkload

NextLifecycle ==
    \/ \E p \in workload : Set(p)
    \/ \E p \in workload : ObservedGet(p)
    \/ Invalidate
    \/ \E type \in WorkloadTypes : InvalidateByType(type)
    \/ \E loc \in WorkloadLocations : InvalidateByLocation(loc)
    \/ Cleanup
    \/ Destroy
    \/ Tick

SpecLifecycle == InitLifecycle /\ [][NextLifecycle]_vars

\* C20: across any sequence of get, set, invalidate (with or without pattern),
\* sweep and destroy operations, the hits counter and the misses counter never
\* decrease.
C20_CountersNeverDecrease ==
    [][stats'.hits >= stats.hits /\ stats'.misses >= stats.misses]_vars

\* destroy has run on a cache that had counted a hit and a miss
C20_DestroyedAfterHitAndMiss ==
    /\ last.op = "destroy"
    /\ ~cleanupTimer
    /\ cache = <<>>
    /\ stats.hits >= 1
    /\ stats.misses >= 1

----------------------------------------------------------------------------
(* Frame conditions of set and get under the cache specification Spec.        *)

\* a step of set: the call recorded is a set and some workload request made it
SetStep == last'.op = "set" /\ \E p \in workload : Set(p)

\* C21: a set for category A, at any fill level of A, never removes an entry
\* whose key belongs to a different category B, so writes to one category
\* cannot reduce the number of entries held by another.
C21_EvictionScoped ==
    [][SetStep =>
          /\ \A i \in 1..Len(cache) :
                CategoryOf(cache[i].key) # last'.type
                => Has(cache', cache[i].key) /\ EntryOf(cache', cache[i].key) = cache[i]
          /\ \A type \in CacheType \ {last'.type} :
                Len(TypeEntries(cache', type)) = Len(TypeEntries(cache, type))]_vars

\* a set for the full forecast category has evicted a forecast entry next to an
\* hourly forecast entry
C21_EvictedBesideOtherCategory ==
    /\ last.op = "set"
    /\ last.type = FORECAST
    /\ last.evicted \notin {NoKey, last.key}
    /\ Len(TypeEntries(cache, HOURLY_FORECAST)) = 1
    /\ Len(TypeEntries(cache, FORECAST)) = 1

\* C22: in every reachable state, every entry in the store satisfies
\* lastAccess >= timestamp, the clock never going backwards.
C22_AccessNotBeforeWrite ==
    \A i \in 1..Len(cache) : cache[i].lastAccess >= cache[i].timestamp

\* an entry written after the clock started has been read later
C22_ReadLater ==
    \E i \in 1..Len(cache) :
       /\ cache[i].timestamp > 0
       /\ cache[i].lastAccess > cache[i].timestamp
       /\ cache[i].accessCount = 1

----------------------------------------------------------------------------
(* Graceful shutdown: one registered manager with the HTTP server and the two *)
(* cleanup functions of MCPWeatherServer.start.                               *)

\* SHUTDOWN_TIMEOUT when the environment does not set it, in milliseconds
shutdownTimeout == 10000

\* the time that passes in one step of this specification, in milliseconds
ShutdownStep == 1000

\* the cleanup functions MCPWeatherServer.start registers
cleanupFunctions == <<"cache_cleanup", "background_cleanup">>

\* what the signal handlers pass to initiateShutdown
Signals ==
    { [reason |-> "SIGTERM", exitCode |-> 0],
      [reason |-> "SIGINT", exitCode |-> 0],
      [reason |-> "UNCAUGHT_EXCEPTION", exitCode |-> 1],
      [reason |-> "UNHANDLED_REJECTION", exitCode |-> 1] }

\* everything but the shutdown manager
serving == <<cache, stats, now, cleanupTimer, last, workload, http, heap, task, nextSweep,
             observed, handlers, serverConfig>>

\* a client opens a connection while the server accepts them
Connect ==
    /\ shutdown.pc = "serving"
    /\ shutdown.connections < MaxConnections
    /\ shutdown' = [shutdown EXCEPT !.connections = @ + 1]
    /\ UNCHANGED serving

\* a connection ends
Disconnect ==
    /\ shutdown.pc # "exited"
    /\ shutdown.connections > 0
    /\ shutdown' = [shutdown EXCEPT !.connections = @ - 1]
    /\ UNCHANGED serving

\* an initiateShutdown without the shutdownInProgress test: every trigger
\* starts the sequence
InitiateShutdownUnguarded(signal) ==
    /\ shutdown.pc # "exited"
    /\ shutdown' = [shutdown EXCEPT !.shutdownInProgress = TRUE, !.pc = "closing",
                                    !.reason = signal.reason, !.exitCode = signal.exitCode,
                                    !.elapsed = 0,
                                    !.duplicate = shutdown.shutdownInProgress]
    /\ UNCHANGED serving

\* initiateShutdown(reason, exitCode) up to its await of closeServers; a call
\* during a shutdown logs 'Shutdown already in progress' and returns
InitiateShutdown(signal) ==
    /\ shutdown.pc # "exited"
    /\ shutdown' = IF shutdown.shutdownInProgress
                   THEN [shutdown EXCEPT !.duplicate = TRUE]
                   ELSE [shutdown EXCEPT !.shutdownInProgress = TRUE, !.pc = "closing",
                                         !.reason = signal.reason,
                                         !.exitCode = signal.exitCode, !.elapsed = 0]
    /\ UNCHANGED serving

\* process.exit(code)
Exit(code) == [shutdown EXCEPT !.pc = "exited", !.exited = code]

\* server.close calls back without error once no connection is left: closeServers
\* resolves and runCleanup starts
ServerClosed ==
    /\ shutdown.pc = "closing"
    /\ shutdown.connections = 0
    /\ shutdown' = [shutdown EXCEPT !.pc = "cleanup"]
    /\ UNCHANGED serving

\* server.close calls back with an error: closeServer rejects, the await of
\* closeServers throws and the catch block exits
ServerCloseError ==
    /\ shutdown.pc = "closing"
    /\ shutdown' = Exit(1)
    /\ UNCHANGED serving

\* the closeTimeout of closeServer fires, one second before shutdownTimeout
ServerCloseTimeout ==
    /\ shutdown.pc = "closing"
    /\ shutdown.elapsed = shutdownTimeout - 1000
    /\ shutdown' = Exit(1)
    /\ UNCHANGED serving

\* time passes during the shutdown, but not past a timer that is due
ShutdownTick ==
    /\ shutdown.pc \in {"closing", "cleanup"}
    /\ shutdown.elapsed + ShutdownStep
         <= (IF shutdown.pc = "closing" THEN shutdownTimeout - 1000 ELSE shutdownTimeout)
    /\ shutdown' = [shutdown EXCEPT !.elapsed = @ + ShutdownStep]
    /\ UNCHANGED serving

\* runCleanup calls the next cleanup function, which completes or throws; a
\* throw is caught and logged, and the loop goes on
RunCleanupFunction(outcome) ==
    /\ shutdown.pc = "cleanup"
    /\ Len(shutdown.cleaned) < Len(cleanupFunctions)
    /\ shutdown' = [shutdown EXCEPT
                      !.cleaned = Append(@, [function |-> cleanupFunctions[Len(@) + 1],
                                             outcome |-> outcome])]
    /\ UNCHANGED serving

\* runCleanup has returned: the timeout is cleared and the process exits
ShutdownCompleted ==
    /\ shutdown.pc = "cleanup"
    /\ Len(shutdown.cleaned) = Len(cleanupFunctions)
    /\ shutdown' = Exit(shutdown.exitCode)
    /\ UNCHANGED serving

\* a shutdownTimeoutHandle that exits with the exit code of the trigger
ShutdownTimeoutExceededQuietly ==
    /\ shutdown.pc = "cleanup"
    /\ shutdown.elapsed = shutdownTimeout
    /\ shutdown' = Exit(shutdown.exitCode)
    /\ UNCHANGED serving

\* the shutdownTimeoutHandle fires while a cleanup function is awaited
ShutdownTimeoutExceeded ==
    /\ shutdown.pc = "cleanup"
    /\ shutdown.elapsed = shutdownTimeout
    /\ shutdown' = Exit(1)
    /\ UNCHANGED serving

InitShutdown ==
    /\ InitCache
    /\ workload = {}

NextShutdown ==
    \/ Connect
    \/ Disconnect
    \/ \E signal \in Signals : InitiateShutdown(signal)
    \/ ServerClosed
    \/ ServerCloseError
    \/ ServerCloseTimeout
    \/ ShutdownTick
    \/ \E outcome \in {"completed", "failed"} : RunCleanupFunction(outcome)
    \/ ShutdownCompleted
    \/ ShutdownTimeoutExceeded

SpecShutdown == InitShutdown /\ [][NextShutdown]_vars

\* C23: whenever a shutdown is initiated (SIGTERM, SIGINT, uncaught exception
\* or unhandled rejection), every registered cleanup function is invoked
\* before the process exits, including when closing an HTTP server fails or
\* times out.
C23_CleanupBeforeExit ==
    shutdown.pc = "exited"
    => { shutdown.cleaned[i].function : i \in 1..Len(shutdown.cleaned) }
       = { cleanupFunctions[i] : i \in 1..Len(cleanupFunctions) }

----------------------------------------------------------------------------
(* What the cache middleware stores, under the HTTP specification SpecHttp.   *)

\* the body is { error: ... }, sent with an error status
IsErrorBody(body) == "error" \in DOMAIN body

\* C24: the cache middleware stores only bodies of successful tool responses:
\* a response sent with an error status (validation 400, upstream 503) is
\* never inserted into the cache and never replayed to a later request as an
\* X-Cache: HIT with status 200.
C24_OnlySuccessStored ==
    /\ \A i \in 1..Len(cache) : ~IsErrorBody(cache[i].data)
    /\ (http.phase = "sent" /\ http.xCache = "HIT") => ~IsErrorBody(http.body)

----------------------------------------------------------------------------
(* Invalidation by location under the cache specification Spec.               *)

\* C25: invalidateByLocation(lat, lon) leaves in the store every entry whose
\* key was generated from coordinates that round to a different 4-decimal
\* (lat, lon) pair.
C25_LocationInvalidationScoped ==
    [][\A loc \in WorkloadLocations :
          (last'.op = "invalidateByLocation" /\ InvalidateByLocation(loc)) =>
             \A p \in workload :
                ( /\ Has(cache, generateKey(p))
                  /\ <<(p.latitude + 5) \div 10, (p.longitude + 5) \div 10>>
                       # <<(loc[1] + 5) \div 10, (loc[2] + 5) \div 10>> )
                => /\ Has(cache', generateKey(p))
                   /\ EntryOf(cache', generateKey(p)) = EntryOf(cache, generateKey(p))]_vars

----------------------------------------------------------------------------
(* What a set removes, under the cache specification Spec.                    *)

\* the keys a step takes out of the store
Removed == Keys(cache) \ Keys(cache')

----------------------------------------------------------------------------
(* What a get changes, under the specification SpecStats of callers that      *)
(* look up repeatedly.                                                        *)

\* every entry but the one under key is in place and unchanged after the step
OthersUnchanged(key) ==
    /\ \A i \in 1..Len(cache) :
          cache[i].key # key
          => Has(cache', cache[i].key) /\ EntryOf(cache', cache[i].key) = cache[i]
    /\ Keys(cache') \subseteq Keys(cache)

\* C27: a get that returns a payload increments that entry's accessCount by
\* exactly one and sets its lastAccess to now, while its payload, timestamp
\* and ttl stay unchanged, so repeated hits never extend the time at which the
\* entry expires; no other entry is changed.
C27_HitTouchesAccessMetadata ==
    [][(GetStep /\ last'.ret # Null) =>
          LET key == last'.key
          IN  /\ Has(cache, key) /\ Has(cache', key)
              /\ EntryOf(cache', key).accessCount = EntryOf(cache, key).accessCount + 1
              /\ EntryOf(cache', key).lastAccess = now
              /\ EntryOf(cache', key).data = EntryOf(cache, key).data
              /\ EntryOf(cache', key).data = last'.ret
              /\ EntryOf(cache', key).timestamp = EntryOf(cache, key).timestamp
              /\ EntryOf(cache', key).ttl = EntryOf(cache, key).ttl
              /\ OthersUnchanged(key)]_vars

\* an entry has been hit twice, the second time at the very end of its ttl
C27_HitTwice ==
    \E i \in 1..Len(cache) :
       /\ cache[i].accessCount = 2
       /\ cache[i].timestamp = 0
       /\ cache[i].lastAccess = cache[i].ttl
       /\ last.op = "get"
       /\ last.key = cache[i].key

\* C28: a get for a key with no entry creates no entry, removes no entry and
\* modifies no entry; only the miss and access counters change, and the cache
\* itself never triggers an upstream fetch.
C28_MissLeavesStore ==
    [][(GetStep /\ ~Has(cache, last'.key)) =>
          /\ cache' = cache
          /\ last'.ret = Null
          /\ stats'.misses = stats.misses + 1
          /\ stats'.hits = stats.hits
          /\ http' = http /\ task' = task /\ handlers' = handlers]_vars

\* a key was looked up in vain in a store that holds another entry
C28_MissBesideEntry ==
    /\ last.op = "get"
    /\ last.log = "MISS"
    /\ Len(cache) = 1
    /\ ~Has(cache, last.key)
    /\ observed.absent = 1

\* C29: a get that finds an entry with now - timestamp > ttl removes that
\* entry from the store, increments misses (not hits) by one and returns
\* absent; a following set on the same key creates a fresh entry with
\* accessCount 0.
C29_LazyExpiry ==
    [][/\ ( /\ GetStep
            /\ Has(cache, last'.key)
            /\ now - EntryOf(cache, last'.key).timestamp > EntryOf(cache, last'.key).ttl )
          => /\ ~Has(cache', last'.key)
             /\ OthersUnchanged(last'.key)
             /\ stats'.misses = stats.misses + 1
             /\ stats'.hits = stats.hits
             /\ last'.ret = Null
       /\ ( /\ SetStep
            /\ last.op = "get" /\ last.log = "EXPIRED" /\ last'.key = last.key )
          => /\ Has(cache', last'.key)
             /\ EntryOf(cache', last'.key).accessCount = 0
             /\ EntryOf(cache', last'.key).timestamp = now
             /\ EntryOf(cache', last'.key).lastAccess = now]_vars

\* an entry that had been hit was found stale by a later get and removed
C29_HitThenExpired ==
    /\ last.op = "get"
    /\ last.log = "EXPIRED"
    /\ ~Has(cache, last.key)
    /\ stats.hits = 1
    /\ stats.misses = 1

----------------------------------------------------------------------------
(* The sweep under the cache specification Spec.                              *)

\* C30: a sweep that runs at time now removes exactly the entries with
\* now - timestamp > ttl; every entry with now - timestamp <= ttl is kept with
\* all fields unchanged, and the hits and misses counters are unchanged by
\* the sweep.
C30_SweepPostcondition ==
    [][(last'.op = "cleanup" /\ Cleanup) =>
          /\ \A i \in 1..Len(cache) :
                IF now - cache[i].timestamp > cache[i].ttl
                THEN ~Has(cache', cache[i].key)
                ELSE Has(cache', cache[i].key) /\ EntryOf(cache', cache[i].key) = cache[i]
          /\ Keys(cache') \subseteq Keys(cache)
          /\ stats'.hits = stats.hits
          /\ stats'.misses = stats.misses]_vars

\* a sweep has removed one entry and kept another, of age ttl
C30_SweptOneKeptOne ==
    /\ last.op = "cleanup"
    /\ last.count = 1
    /\ \E i \in 1..Len(cache) : now - cache[i].timestamp = cache[i].ttl

----------------------------------------------------------------------------
(* invalidate() called while calls of getCurrentWeather wait for the upstream. *)
(* handlers.overtaken holds the calls that were waiting when the last          *)
(* invalidate returned, handlers.written those that have stored since.         *)

\* weatherCache.invalidate() between the steps of the handlers
InvalidateInFlight ==
    /\ cache' = InvalidateCache(cache, NoPattern)
    /\ handlers' = [handlers EXCEPT
                      !.overtaken = { h \in 1..MaxHandlers : handlers.pc[h] = "await" },
                      !.written = {}]
    /\ UNCHANGED <<stats, now, cleanupTimer, last, workload, http, heap, task, nextSweep,
                   observed, serverConfig, shutdown>>

NextInFlight ==
    \/ NextRace
    \/ InvalidateInFlight

SpecInFlight == InitRace /\ [][NextInFlight]_vars

\* C31 (as stated): once invalidate() has returned, every payload later served
\* from the cache was fetched from upstream after the invalidation; a request
\* that missed before the invalidation and completes its fetch after it does
\* not re-insert pre-invalidation data. Every payload served is the data of
\* the entry under the key, so no entry may hold the response of a call that
\* was waiting for the upstream when the last invalidate returned.
C31_NoReinsertAfterInvalidate ==
    LET k == CurrentWeatherKey(RaceParams)
    IN  Has(cache, k) => EntryOf(cache, k).data.to \notin handlers.overtaken

\* C31 (amended): once invalidate() has returned, every payload later served
\* from the cache was stored by a set that ran after the invalidation.
C31_ServedStoredAfterInvalidate ==
    [][\A h \in 1..MaxHandlers :
          (handlers.pc[h] = "start" /\ handlers'.pc[h] = "returned")
          => /\ Has(cache, CurrentWeatherKey(RaceParams))
             /\ EntryOf(cache, CurrentWeatherKey(RaceParams)).data.to \in handlers.written]_vars

\* call 1 alone missed, was waiting when invalidate returned, stored afterwards,
\* and a later call was served its response
C31_ServedOvertakenResponse ==
    /\ handlers.overtaken = {1}
    /\ stats.misses = 1
    /\ stats.hits >= 1
    /\ Has(cache, CurrentWeatherKey(RaceParams))
    /\ EntryOf(cache, CurrentWeatherKey(RaceParams)).data.to = 1

----------------------------------------------------------------------------
(* A second run of the same calls at the same times with other payload sizes. *)
(* The second run's map is related to the first's by holding the same entries *)
(* up to data bytes and size; each call must keep the two maps related.       *)

\* the payload of the second run: the same answer, serialized to more bytes
LargePayload(t) == [fetchedAt |-> t, bytes |-> 900]

\* the map of the second run: the entries of c with other sizes, growing with
\* the position in the map
Resized(c) ==
    [i \in 1..Len(c) |-> [c[i] EXCEPT !.size = 50 * i, !.data.bytes = 50 * i]]

\* the keys of the map, in its order, each with the fields of its entry that do
\* not depend on the size of the payload
Shape(c) ==
    [i \in 1..Len(c) |->
        [key |-> c[i].key, fetchedAt |-> c[i].data.fetchedAt, timestamp |-> c[i].timestamp,
         ttl |-> c[i].ttl, accessCount |-> c[i].accessCount, lastAccess |-> c[i].lastAccess]]

\* C32: size is never used for eviction or admission: two runs that apply the
\* same sequence of operations at the same times but with payloads of different
\* sizes hold the same set of keys after every step (only memoryUsage differs).
\* Checked call by call: from maps that agree up to sizes, the same call leaves
\* maps that agree up to sizes, hence maps that hold the same keys.
C32_SizeBlind ==
    [][ /\ (now' = now /\ last'.op = "set")
           => LET other == SetCache(Resized(cache), last'.key, LargePayload(now),
                                    last'.type, now)
              IN  Shape(other) = Shape(cache')
        /\ (now' = now /\ last'.op = "get")
           => LET other == GetOutcome(Resized(cache), stats, last'.key, now).cache
              IN  Shape(other) = Shape(cache')
        /\ (now' = now /\ last'.op \in {"invalidate", "invalidateByType", "invalidateByLocation"})
           => LET other == InvalidateCache(Resized(cache), last'.key)
              IN  Shape(other) = Shape(cache')
        /\ (now' = now /\ last'.op = "cleanup")
           => LET other == CleanupCache(Resized(cache), now)
              IN  Shape(other) = Shape(cache') ]_vars

\* a set has evicted one of two entries of its category, whose sizes differ in
\* the second run, and the two runs report different memory usage
C32_EvictedAmongSizes ==
    /\ last.op = "set"
    /\ last.evicted # NoKey
    /\ Len(TypeEntries(cache, last.type)) >= 2
    /\ MemoryUsage(Resized(cache)) # MemoryUsage(cache)

----------------------------------------------------------------------------
(* geocode_location requests whose country and language are free text.        *)

\* the parameters object the keyGenerator of geocodingCache builds for the
\* location 'paris' without max_results; the texts are in lower case already
GeocodingParameters(country, language) ==
    << <<"location", "paris">>, <<"country", country>>, <<"language", language>>,
       <<"max_results", "5">> >>

GeocodingInputs ==
    { KeyParams(GEOCODING, Origin, GeocodingParameters(text[1], text[2])) :
        text \in { <<"fr", "en">>, <<"de", "en">>,
                   <<"fr|language:de", "en">>, <<"fr", "de|language:en">> } }

InitGeocoding ==
    /\ InitCache
    /\ workload \in { {p, q} : p, q \in GeocodingInputs }

SpecGeocoding == InitGeocoding /\ [][NextKeys]_vars

\* C33: parameter canonicalization is injective: two parameter sets that
\* differ as name-to-value mappings never canonicalize to the same
\* 'key:value|key:value' string, so two different requests for the same
\* category and coordinates share a cache key only through a hash collision.
C33_CanonicalizationInjective ==
    \A p, q \in workload :
       MappingOf(p.parameters) # MappingOf(q.parameters)
       => ParamStringOf(p.parameters) # ParamStringOf(q.parameters)

----------------------------------------------------------------------------
(* The statistics of the shared cache under tool calls.                       *)

\* C34: one counted lookup per request: each tool request handled through
\* /mcp/call changes hits + misses of the shared cache by exactly one, so one
\* cold request followed by one identical warm request leaves the statistics
\* at hits == 1 and misses == 1.
C34_OneLookupPerRequest ==
    [][http'.count = http.count + 1
       => stats'.hits + stats'.misses = stats.hits + stats.misses + 1]_vars

\* C35: in every reachable state hits + misses equals the internal
\* accessCount, which equals the number of get calls made so far; every get
\* increments exactly one of hits or misses, and set, invalidate and sweep
\* change none of these counters.
C35_CountersAgree ==
    [][ /\ stats.hits + stats.misses = stats.accessCount
        /\ stats.accessCount = observed.payload + observed.absent
        /\ stats'.hits + stats'.misses = stats'.accessCount
        /\ stats'.accessCount = observed'.payload + observed'.absent
        /\ IF observed' # observed
           THEN \/ stats'.hits = stats.hits + 1 /\ stats'.misses = stats.misses
                \/ stats'.hits = stats.hits /\ stats'.misses = stats.misses + 1
           ELSE /\ stats'.hits = stats.hits
                /\ stats'.misses = stats.misses
                /\ stats'.accessCount = stats.accessCount ]_vars

\* after a hit, a miss and a refused stale entry, a set, clear or sweep has run
C35_CountedThenWritten ==
    /\ stats.hits >= 1
    /\ stats.misses >= 2
    /\ last.op \in {"set", "invalidate", "cleanup"}
    /\ Len(cache) >= 1

----------------------------------------------------------------------------
(* The cache after destroy(), under the specification SpecLifecycle.          *)

\* C36: after destroy() the store is empty and no further sweep ever runs,
\* while get and set remain callable and lazy expiry on get still prevents
\* stale payloads from being returned.
C36_StoppedSweeper ==
    [][ /\ (now' = now /\ last'.op = "destroy") => (cache' = <<>> /\ ~cleanupTimer')
        /\ ~cleanupTimer => ~cleanupTimer'
        /\ ~cleanupTimer' => last'.op # "cleanup"
        /\ (~cleanupTimer /\ now' = now /\ last'.op = "set") => Has(cache', last'.key)
        /\ (~cleanupTimer /\ observed' # observed)
           => IF /\ Has(cache, last'.key)
                 /\ now - EntryOf(cache, last'.key).timestamp <= EntryOf(cache, last'.key).ttl
              THEN last'.ret = EntryOf(cache, last'.key).data
              ELSE last'.ret = Null /\ ~Has(cache', last'.key) ]_vars

\* after destroy an entry was stored, outlived its ttl unswept and was refused
\* by a get
C36_StaleRefusedAfterDestroy ==
    /\ ~cleanupTimer
    /\ last.op = "get"
    /\ last.log = "EXPIRED"
    /\ last.ret = Null

----------------------------------------------------------------------------
(* Repeated triggers and termination, under the specification SpecShutdown.   *)

\* C37: shutdown runs at most once: however many shutdown triggers arrive
\* (SIGTERM, SIGINT, uncaughtException, unhandledRejection) and in whatever
\* order or interleaving, the sequence 'close servers, then run cleanup
\* functions' is started at most once, and cleanup functions start only after
\* all registered servers have closed.
C37_ShutdownOnce ==
    [][ /\ shutdown.shutdownInProgress
           => /\ shutdown'.shutdownInProgress
              /\ shutdown'.reason = shutdown.reason
              /\ shutdown'.exitCode = shutdown.exitCode
              /\ shutdown'.elapsed >= shutdown.elapsed
              /\ shutdown'.pc = "closing" => shutdown.pc = "closing"
              /\ \A i \in 1..Len(shutdown.cleaned) :
                    i <= Len(shutdown'.cleaned) /\ shutdown'.cleaned[i] = shutdown.cleaned[i]
        /\ Len(shutdown'.cleaned) <= Len(cleanupFunctions)
        /\ (shutdown'.pc = "cleanup" /\ shutdown.pc # "cleanup")
           => (shutdown.pc = "closing" /\ shutdown.connections = 0)
        /\ Len(shutdown'.cleaned) > Len(shutdown.cleaned) => shutdown.pc = "cleanup" ]_vars

\* a trigger arrived during the shutdown, and both cleanup functions have run
C37_DuplicateTriggerIgnored ==
    /\ shutdown.duplicate
    /\ shutdown.pc = "cleanup"
    /\ Len(shutdown.cleaned) = Len(cleanupFunctions)

\* Timers that are due fire, time passes while a timer is pending, and the
\* code after the last await runs; a server may never close and a cleanup
\* function may never complete.
SpecShutdownFair ==
    /\ SpecShutdown
    /\ WF_vars(ShutdownTick)
    /\ WF_vars(ServerCloseTimeout)
    /\ WF_vars(ShutdownTimeoutExceeded)
    /\ WF_vars(ShutdownCompleted)

\* C38: shutdown always terminates: after the first shutdown trigger the
\* process eventually exits even if a server never closes or a cleanup
\* function never completes; it exits with the requested exit code only when
\* server close and cleanup finished before the shutdown timeout, and with
\* code 1 otherwise.
C38_ShutdownTerminates ==
    /\ shutdown.shutdownInProgress ~> shutdown.pc = "exited"
    /\ [][(shutdown'.pc = "exited" /\ shutdown.pc # "exited")
          => LET finished == /\ shutdown.pc = "cleanup"
                             /\ Len(shutdown.cleaned) = Len(cleanupFunctions)
             IN  /\ (finished /\ shutdown.elapsed < shutdownTimeout)
                    => shutdown'.exited = shutdown.exitCode
                 /\ ~finished => shutdown'.exited = 1
                 /\ shutdown'.exited \in {shutdown.exitCode, 1}]_vars

\* a SIGTERM or SIGINT shutdown whose second cleanup function was still pending
\* when the shutdown timeout fired has exited with code 1
C38_TimedOutInCleanup ==
    /\ shutdown.pc = "exited"
    /\ shutdown.exitCode = 0
    /\ shutdown.exited = 1
    /\ Len(shutdown.cleaned) = 1
    /\ shutdown.elapsed = shutdownTimeout

====
